---- MODULE Spec2Model ----
(***************************************************************************)
(* Workflow editor: graph store, history engine and the handlers that      *)
(* reach them.  The repository holds two builds of the editor that share   *)
(* the store and history code: the ES-module build (js/state.js,           *)
(* js/canvas.js, js/connections.js) and the merged single script.  The     *)
(* variable "variant" says which build the page runs.                      *)
(*                                                                         *)
(* Strings are sequences of tokens (<<"bucket-", "1">> is "bucket-1"), so  *)
(* that startsWith / includes are computed and not assumed.  JavaScript    *)
(* objects are records; an undefined property is a key that is absent.     *)
(* JSON.parse(JSON.stringify(v)) on such a value (strings, finite numbers, *)
(* arrays, objects without undefined members) yields an equal value, and   *)
(* values here have no identity, so a deep copy is the value itself.       *)
(***************************************************************************)
EXTENDS Integers, Sequences, FiniteSets, TLC

VARIABLES
    variant,              \* "modules" (js/*.js) or "merged" (single script)
    buckets,              \* state.buckets
    connections,          \* state.connections
    workflowState,        \* localStorage['workflowState']: <<>> (no key) or <<value>>
    historyStack,         \* snapshots, historyStack[1] is the oldest
    historyIndex,         \* 0-based index as in the source, -1 when empty
    timerPending,         \* setTimeout(() => commitHistory(), 100) not yet fired
    log,                  \* what the handler that ran last did, in order
    currentOpenBucketId,  \* bucket shown in the detail overlay, NoId when closed
    cardStyle,            \* instanceId -> <<left, top>> of the cards of the open board
    customTemplates,      \* state.customTemplates of the merged script
    call,                 \* the handler that ran last and its arguments
    activeDragCardId,     \* instanceId of the card being dragged, NoId when none
    activeDragBucketId,   \* bucket being dragged on the canvas, NoId when none
    currentDragOffset,    \* <<x, y>> grab offset of the bucket drag
    currentCardDragOffset, \* <<x, y>> grab offset of the card drag, in board units
    ops,                  \* number of store-changing handler runs so far (bounded)
    phase,                \* scenario bookkeeping: position in the scenario
    mark,                 \* scenario bookkeeping: the graph remembered at the mark
    nCalls,               \* scenario bookkeeping: calls made since the mark
    nUndos,               \* scenario bookkeeping: undo() calls made after them
    ports,                \* the .variable elements of the canvas, each with its data
    startNode,            \* <<>> or <<the port where the canvas gesture started>>
    pathD,                \* <<>> or <<the d attribute of the canvas preview path>>
    detailStartNode,      \* <<>> or <<the board element where the gesture started>>
    currentPathPoints,    \* board-space samples of the board gesture in progress
    currentTransform,     \* pan and zoom of the board: [x, y, scale], scale a fraction
    isPanning,            \* a background press of the board is being dragged
    panStart,             \* pointer position the next pan delta is measured from
    download,             \* <<>> or <<the file downloadTextFile handed to the browser last>>
    layer,                \* the path elements of #connection-layer, in document order
    heap                  \* the objects behind state.buckets, state.connections and historyStack

vars == <<variant, buckets, connections, workflowState, historyStack, historyIndex,
          timerPending, log, currentOpenBucketId, cardStyle, customTemplates, call,
          activeDragCardId,
          activeDragBucketId, currentDragOffset, currentCardDragOffset, ops,
          phase, mark, nCalls, nUndos, ports, startNode, pathD, detailStartNode,
          currentPathPoints, currentTransform, isPanning, panStart, download, layer,
          heap>>

----------------------------------------------------------------------------
(* Bounds of the model *)

MaxOps == 2            \* store-changing handler runs explored per behaviour
MaxLongCommits == 52   \* commits explored in the long-history specification

----------------------------------------------------------------------------
(* Strings and identifiers *)

NoId == <<>>

StartsWith(s, p) == Len(p) <= Len(s) /\ SubSeq(s, 1, Len(p)) = p

Includes(s, p) == \E i \in 0..(Len(s) - Len(p)) : SubSeq(s, i + 1, i + Len(p)) = p

\* `${bucketId}:${instanceId}:${variableId}`
EndpointId(bucketId, instanceId, variableId) ==
    bucketId \o <<":">> \o instanceId \o <<":">> \o variableId

\* bucketId + ':'
BucketPrefix(bucketId) == bucketId \o <<":">>

B1 == <<"bucket-", "1">>
B2 == <<"bucket-", "2">>
BMissing == <<"bucket-", "9">>
I1 == <<"item-", "1">>
I2 == <<"item-", "2">>
I3 == <<"item-", "3">>
IMissing == <<"item-", "9">>
VA == <<"v-a">>
VB == <<"v-b">>

\* the least element of a set of indices; 0 when the set is empty
FirstIndex(S) == IF S = {} THEN 0 ELSE CHOOSE i \in S : \A j \in S : i <= j

\* array.find / findIndex by id, 1-based; 0 when nothing matches
FindById(seq, id) == FirstIndex({i \in 1..Len(seq) : seq[i].id = id})

FindByInstanceId(seq, instanceId) ==
    FirstIndex({i \in 1..Len(seq) : seq[i].instanceId = instanceId})

\* array.filter
RECURSIVE Filter(_, _)
Filter(seq, keep) ==
    IF seq = <<>> THEN <<>>
    ELSE (IF Head(seq) \in keep THEN <<Head(seq)>> ELSE <<>>) \o Filter(Tail(seq), keep)

Range(seq) == {seq[i] : i \in 1..Len(seq)}

\* Object.assign(target, changes): shallow merge
ObjectAssign(target, changes) ==
    [k \in DOMAIN target \cup DOMAIN changes |->
        IF k \in DOMAIN changes THEN changes[k] ELSE target[k]]

----------------------------------------------------------------------------
(* The store and the history engine.  Every operator maps the machine m    *)
(* (a record of the program's variables) to the machine after the call.    *)

MAX_HISTORY == 50

BUCKET_WIDTH == 180
BUCKET_HEIGHT == 300
GAP_X == 50
GAP_Y == 20
START_X == 50
START_Y == 50

\* document.getElementById('canvas').clientWidth
ContainerWidth == 600

Max(a, b) == IF a >= b THEN a ELSE b

RECURSIVE emit(_, _)

\* saveState: connections are mapped to {id, sourceId, targetId, points} and the
\* whole is stringified, which drops a points that is undefined
SerializeConnectionNoPoints(c) ==
    [k \in {"id", "sourceId", "targetId"} \cap DOMAIN c |-> c[k]]

SerializeConnection(c) ==
    [k \in {"id", "sourceId", "targetId", "points"} \cap DOMAIN c |-> c[k]]

saveState(m) ==
    LET serializableConnections ==
            [i \in 1..Len(m.connections) |-> SerializeConnection(m.connections[i])]
        toSave == IF m.variant = "merged"
                  THEN [buckets |-> m.buckets, connections |-> serializableConnections,
                        customTemplates |-> m.customTemplates]
                  ELSE [buckets |-> m.buckets, connections |-> serializableConnections]
    IN  [m EXCEPT !.workflowState = <<toSave>>, !.log = Append(@, "save")]

\* the load at startup: JSON.parse of the stored value, or the empty graph when
\* the key is absent; a collection the parsed value lacks is []
load(stored) ==
    LET loadedData == IF stored = <<>> THEN [buckets |-> <<>>, connections |-> <<>>]
                      ELSE stored[1]
    IN  [buckets |-> IF "buckets" \in DOMAIN loadedData THEN loadedData.buckets ELSE <<>>,
         connections |-> IF "connections" \in DOMAIN loadedData
                         THEN loadedData.connections ELSE <<>>]

Snapshot(m) == [buckets |-> m.buckets, connections |-> m.connections]

\* variants of commitHistory, undo and updateBucket that the properties below
\* must tell apart from the real ones
commitHistoryNoEvict(m) ==
    LET cut == IF m.historyIndex < Len(m.historyStack) - 1
               THEN SubSeq(m.historyStack, 1, m.historyIndex + 1)
               ELSE m.historyStack
        m1 == [m EXCEPT !.historyStack = Append(cut, Snapshot(m)),
                        !.historyIndex = @ + 1,
                        !.log = Append(@, "commit")]
    IN  emit(m1, "history:updated")

commitHistoryDropsNewest(m) ==
    LET cut == IF m.historyIndex < Len(m.historyStack) - 1
               THEN SubSeq(m.historyStack, 1, m.historyIndex + 1)
               ELSE m.historyStack
        pushed == Append(cut, Snapshot(m))
        over == Len(pushed) > MAX_HISTORY
        m1 == [m EXCEPT !.historyStack = IF over THEN cut ELSE pushed,
                        !.historyIndex = IF over THEN @ ELSE @ + 1,
                        !.log = Append(@, "commit")]
    IN  emit(m1, "history:updated")

commitHistoryKeepsFuture(m) ==
    LET pushed == Append(m.historyStack, Snapshot(m))
        over == Len(pushed) > MAX_HISTORY
        m1 == [m EXCEPT !.historyStack = IF over THEN Tail(pushed) ELSE pushed,
                        !.historyIndex = IF over THEN @ ELSE @ + 1,
                        !.log = Append(@, "commit")]
    IN  emit(m1, "history:updated")

commitHistory(m) ==
    LET cut == IF m.historyIndex < Len(m.historyStack) - 1
               THEN SubSeq(m.historyStack, 1, m.historyIndex + 1)
               ELSE m.historyStack
        pushed == Append(cut, Snapshot(m))
        over == Len(pushed) > MAX_HISTORY
        m1 == [m EXCEPT !.historyStack = IF over THEN Tail(pushed) ELSE pushed,
                        !.historyIndex = IF over THEN @ ELSE @ + 1,
                        !.log = Append(@, "commit")]
    IN  emit(m1, "history:updated")

\* containerWidth: document.getElementById('canvas').clientWidth || window.innerWidth
containerWidthOf(clientWidth, innerWidth) ==
    IF clientWidth = 0 THEN innerWidth ELSE clientWidth

\* reLayout with a grid step that leaves the gap between columns out
reLayoutInNoGap(m, containerWidth) ==
    LET availableWidth == containerWidth - START_X
        cols == Max(1, availableWidth \div (BUCKET_WIDTH + GAP_X))
        place(index, bucket) ==
            [bucket EXCEPT !.x = START_X + (index % cols) * BUCKET_WIDTH,
                           !.y = START_Y + (index \div cols) * (BUCKET_HEIGHT + GAP_Y)]
    IN  [m EXCEPT !.buckets = [i \in 1..Len(m.buckets) |-> place(i - 1, m.buckets[i])]]

\* reLayout in a canvas of the given width: every bucket is put on the grid
\* cell of its index
reLayoutIn(m, containerWidth) ==
    LET availableWidth == containerWidth - START_X
        cols == Max(1, availableWidth \div (BUCKET_WIDTH + GAP_X))
        place(index, bucket) ==
            [bucket EXCEPT !.x = START_X + (index % cols) * (BUCKET_WIDTH + GAP_X),
                           !.y = START_Y + (index \div cols) * (BUCKET_HEIGHT + GAP_Y)]
    IN  [m EXCEPT !.buckets = [i \in 1..Len(m.buckets) |-> place(i - 1, m.buckets[i])]]

reLayout(m) == reLayoutIn(m, ContainerWidth)

updateBucketNoCommit(m, id, changes) ==
    LET i == FindById(m.buckets, id)
    IN  IF i = 0 THEN m
        ELSE emit(saveState([m EXCEPT !.buckets[i] = ObjectAssign(@, changes)]),
                  "bucket:updated")

addBucket(m, bucket) ==
    commitHistory(emit(saveState([m EXCEPT !.buckets = Append(@, bucket)]), "bucket:added"))

updateBucket(m, id, changes) ==
    LET i == FindById(m.buckets, id)
    IN  IF i = 0 THEN m
        ELSE commitHistory(emit(saveState(
                 [m EXCEPT !.buckets[i] = ObjectAssign(@, changes)]), "bucket:updated"))

\* the merged script re-lays the grid out inside removeBucket, js/state.js does not
removeBucketIn(m, id, containerWidth) ==
    LET kept == [m EXCEPT !.buckets = Filter(@, {b \in Range(@) : b.id # id})]
        laid == IF m.variant = "merged" THEN reLayoutIn(kept, containerWidth) ELSE kept
    IN  commitHistory(emit(saveState(laid), "bucket:removed"))

removeBucket(m, id) == removeBucketIn(m, id, ContainerWidth)

addItemToBucket(m, bucketId, item) ==
    LET i == FindById(m.buckets, bucketId)
    IN  IF i = 0 THEN m
        ELSE commitHistory(emit(saveState(
                 [m EXCEPT !.buckets[i].items = Append(@, item)]), "bucket:updated"))

removeItemFromBucket(m, bucketId, instanceId) ==
    LET i == FindById(m.buckets, bucketId)
        idx == IF i = 0 THEN 0 ELSE FindByInstanceId(m.buckets[i].items, instanceId)
        splice(items) == SubSeq(items, 1, idx - 1) \o SubSeq(items, idx + 1, Len(items))
    IN  IF i = 0 \/ idx = 0 THEN m
        ELSE commitHistory(emit(saveState(
                 [m EXCEPT !.buckets[i].items = splice(@)]), "bucket:updated"))

addConnection(m, conn) ==
    commitHistory(emit(saveState([m EXCEPT !.connections = Append(@, conn)]),
                       "connection:added"))

removeConnection(m, id) ==
    commitHistory(emit(saveState(
        [m EXCEPT !.connections = Filter(@, {c \in Range(@) : c.id # id})]),
        "connection:removed"))

clearAll(m) ==
    commitHistory(emit(saveState([m EXCEPT !.buckets = <<>>, !.connections = <<>>]),
                       "reset"))

Restore(m, index) ==
    LET snapshot == m.historyStack[index + 1]
    IN  [m EXCEPT !.historyIndex = index,
                  !.buckets = snapshot.buckets,
                  !.connections = snapshot.connections]

undoAlwaysNotifies(m) ==
    IF m.historyIndex > 0
    THEN emit(emit(saveState(Restore(m, m.historyIndex - 1)), "reset"), "history:updated")
    ELSE emit(m, "history:updated")

undo(m) ==
    IF m.historyIndex > 0
    THEN emit(emit(saveState(Restore(m, m.historyIndex - 1)), "reset"), "history:updated")
    ELSE m

redo(m) ==
    IF m.historyIndex < Len(m.historyStack) - 1
    THEN emit(emit(saveState(Restore(m, m.historyIndex + 1)), "reset"), "history:updated")
    ELSE m

----------------------------------------------------------------------------
(* Numbers that are not whole: a fraction n/d in lowest terms with d > 0.   *)
(* The zoom scale and the board coordinates divided by it are fractions.    *)
(* Arithmetic on them is exact; the rounding of JavaScript's doubles is not *)
(* part of the model.                                                       *)

RECURSIVE GCD(_, _)
GCD(a, b) == IF b = 0 THEN a ELSE GCD(b, a % b)

Abs(a) == IF a < 0 THEN -a ELSE a

Q(n, d) ==
    LET g == GCD(Abs(n), Abs(d))
        sign == IF d < 0 THEN -1 ELSE 1
    IN  [n |-> sign * (n \div g), d |-> sign * (d \div g)]

QInt(a) == [n |-> a, d |-> 1]
QAdd(a, b) == Q(a.n * b.d + b.n * a.d, a.d * b.d)
QSub(a, b) == Q(a.n * b.d - b.n * a.d, a.d * b.d)
QMul(a, b) == Q(a.n * b.n, a.d * b.d)
QDiv(a, b) == Q(a.n * b.d, a.d * b.n)
QLe(a, b) == a.n * b.d <= b.n * a.d
QMax(a, b) == IF QLe(b, a) THEN a ELSE b
QMin(a, b) == IF QLe(a, b) THEN a ELSE b

\* parseInt of a number's text: the fraction is cut off, towards zero
parseInt(q) == IF q.n >= 0 THEN q.n \div q.d ELSE -((-q.n) \div q.d)

----------------------------------------------------------------------------
(* The bucket detail overlay of the merged script *)

\* openBucketDetail: items without x or y get their default grid cell, written
\* into the item objects of the store, and only then actions.updateBucket runs
DefaultPosition(index, item) ==
    IF "x" \in DOMAIN item /\ "y" \in DOMAIN item THEN item
    ELSE ObjectAssign(item, [x |-> 100 + (index % 3) * 350,
                             y |-> 100 + (index \div 3) * 300])

CardsOf(items) ==
    [instanceId \in {items[i].instanceId : i \in 1..Len(items)} |->
        LET item == items[FindByInstanceId(items, instanceId)]
        IN  <<QInt(item.x), QInt(item.y)>>]

openBucketDetail(m, bucketId) ==
    LET i == FindById(m.buckets, bucketId)
        old == m.buckets[i].items
        items == [k \in 1..Len(old) |-> DefaultPosition(k - 1, old[k])]
        needsSave == items # old
        m1 == [m EXCEPT !.currentOpenBucketId = bucketId, !.buckets[i].items = items]
        m2 == IF needsSave THEN updateBucket(m1, bucketId, [items |-> items]) ELSE m1
    IN  IF i = 0 THEN m
        ELSE [m2 EXCEPT !.cardStyle = CardsOf(items)]

closeBucketDetail(m) == [m EXCEPT !.currentOpenBucketId = NoId]

\* the 'reset' listener of initCanvas (merged script).  renderBuckets is not
\* defined anywhere, so the listener ends with a ReferenceError at that call;
\* dispatchEvent reports a listener's exception and the emitter carries on.
onReset(m) ==
    IF m.currentOpenBucketId # NoId
    THEN IF FindById(m.buckets, m.currentOpenBucketId) # 0
         THEN openBucketDetail(m, m.currentOpenBucketId)
         ELSE closeBucketDetail(m)
    ELSE m

\* emit: dispatch to the listeners registered with on(); only 'reset' has a
\* listener that touches the program's state, and only in the merged script
emit(m, event) ==
    LET m1 == [m EXCEPT !.log = Append(@, event)]
    IN  IF event = "reset" /\ m.variant = "merged" THEN onReset(m1) ELSE m1

----------------------------------------------------------------------------
(* Pointer handlers that reach the store *)

\* getBoundingClientRect() of #canvas and of #detail-cards-container: top-left
CanvasOrigin == <<0, 0>>
DetailOrigin == <<0, 0>>

\* the pointer position of a press at grab inside an element whose top-left is
\* at pos in a layer whose top-left is at origin
PressAt(origin, pos, grab) == <<origin[1] + pos[1] + grab[1], origin[2] + pos[2] + grab[2]>>

\* startBucketDrag: offset of the pointer from the bucket element's rectangle
BucketGrabOffset(bucket, client) ==
    <<client[1] - (CanvasOrigin[1] + bucket.x), client[2] - (CanvasOrigin[2] + bucket.y)>>

\* the rectangle of #detail-board-wrapper starts where translate(x, y) puts it
WrapperOrigin(transform) == <<DetailOrigin[1] + transform.x, DetailOrigin[2] + transform.y>>

\* handleCardDragStart: the pointer in board units minus the card's left and top
CardGrabOffset(transform, style, client) ==
    <<QSub(QDiv(QInt(client[1] - WrapperOrigin(transform)[1]), transform.scale), style[1]),
      QSub(QDiv(QInt(client[2] - WrapperOrigin(transform)[2]), transform.scale), style[2])>>

\* handleBucketDragMove (js/canvas.js): writes the position into the bucket
\* object of the store; no saveState, no commitHistory
handleBucketDragMove(m, bucketId, offset, client) ==
    LET i == FindById(m.buckets, bucketId)
    IN  IF bucketId = NoId \/ i = 0 THEN m
        ELSE [m EXCEPT !.buckets[i].x = client[1] - CanvasOrigin[1] - offset[1],
                       !.buckets[i].y = client[2] - CanvasOrigin[2] - offset[2]]

\* handleCardDragMove that saves and commits on every move
handleCardDragMoveCommits(m, transform, cardId, offset, client) ==
    IF cardId = NoId \/ m.currentOpenBucketId = NoId \/ cardId \notin DOMAIN m.cardStyle
    THEN m
    ELSE commitHistory(saveState(
             [m EXCEPT !.cardStyle[cardId] =
                 <<QDiv(QSub(QInt(client[1] - WrapperOrigin(transform)[1]), offset[1]),
                        transform.scale),
                   QDiv(QSub(QInt(client[2] - WrapperOrigin(transform)[2]), offset[2]),
                        transform.scale)>>]))

\* handleCardDragMove: the card's left and top become
\* (client - wrapper origin - offset) / scale
handleCardDragMove(m, transform, cardId, offset, client) ==
    IF cardId = NoId \/ m.currentOpenBucketId = NoId \/ cardId \notin DOMAIN m.cardStyle
    THEN m
    ELSE [m EXCEPT !.cardStyle[cardId] =
             <<QDiv(QSub(QInt(client[1] - WrapperOrigin(transform)[1]), offset[1]),
                    transform.scale),
               QDiv(QSub(QInt(client[2] - WrapperOrigin(transform)[2]), offset[2]),
                    transform.scale)>>]

\* handleCardDragEnd: parseInt of the card's left and top is written into the
\* item object of the store, then actions.updateBucket(bucket.id, {items: bucket.items})
handleCardDragEnd(m, cardId) ==
    LET i == FindById(m.buckets, m.currentOpenBucketId)
        k == IF i = 0 THEN 0 ELSE FindByInstanceId(m.buckets[i].items, cardId)
        m1 == [m EXCEPT !.buckets[i].items[k] =
                   ObjectAssign(@, [x |-> parseInt(m.cardStyle[cardId][1]),
                                    y |-> parseInt(m.cardStyle[cardId][2])])]
    IN  IF cardId = NoId \/ m.currentOpenBucketId = NoId
           \/ cardId \notin DOMAIN m.cardStyle \/ i = 0 \/ k = 0
        THEN m
        ELSE updateBucket(m1, m.currentOpenBucketId, [items |-> m1.buckets[i].items])

\* the delete-card button of a card of the open board, confirm() accepted:
\* state.connections is replaced directly, the item goes through updateBucket
deleteCardBtn(m, bucketId, instanceId) ==
    LET i == FindById(m.buckets, bucketId)
        needle == <<":">> \o instanceId \o <<":">>
        newConns == Filter(m.connections,
                           {c \in Range(m.connections) :
                               ~(Includes(c.sourceId, needle) \/ Includes(c.targetId, needle))})
        newItems == Filter(m.buckets[i].items,
                           {it \in Range(m.buckets[i].items) : it.instanceId # instanceId})
        m1 == [m EXCEPT !.connections = newConns]
    IN  IF i = 0 THEN m1
        ELSE openBucketDetail(updateBucket(m1, bucketId, [items |-> newItems]), bucketId)

----------------------------------------------------------------------------
(* The elements the connection gestures start and end on *)

\* `${undefined}` in a template literal
Undefined == <<"undefined">>

\* createBucketItemDOM(item, bucketId): the .variable elements made for an item,
\* each with dataset.connectionId; owner is the bucket element they are put in.
\* The merged script makes none for an app or a hub.
createBucketItemDOM(build, item, bucketId, owner) ==
    IF build = "merged" /\ "nodeType" \in DOMAIN item /\ item.nodeType \in {"app", "hub"}
    THEN {}
    ELSE IF "variables" \notin DOMAIN item THEN {}
    ELSE {[bucket |-> owner, instanceId |-> item.instanceId, variableId |-> v.id,
           connectionId |-> EndpointId(bucketId, item.instanceId, v.id)] :
              v \in Range(item.variables)}

\* renderBucket, Render Items: js/canvas.js calls createBucketItemDOM(item), the
\* merged script createBucketItemDOM(item, bucket.id)
renderBucket(build, bucket) ==
    UNION {createBucketItemDOM(build, item,
                               IF build = "modules" THEN Undefined ELSE bucket.id,
                               bucket.id) : item \in Range(bucket.items)}

\* initCanvas: state.buckets.forEach(bucket => renderBucket(bucket))
initCanvas(build, bs) == UNION {renderBucket(build, b) : b \in Range(bs)}

\* openBucketDetail, Variables List: one .card-variable-row per variable of each
\* item of the open bucket, with a .card-connector inside; both carry connId
DetailRows(bucket) ==
    UNION {IF "variables" \in DOMAIN item
           THEN {[kind |-> "row",
                  connId |-> EndpointId(bucket.id, item.instanceId, v.id)] :
                     v \in Range(item.variables)}
           ELSE {} : item \in Range(bucket.items)}

ConnectorOf(row) == [kind |-> "connector", connId |-> row.connId]

\* getBoundingClientRect() of the canvas's #connection-layer: top-left
SvgOrigin == <<0, 0>>

\* Math.sqrt of a whole number that is a square
RECURSIVE SqrtBetween(_, _, _)
SqrtBetween(n, lo, hi) ==
    IF lo >= hi THEN lo
    ELSE LET mid == (lo + hi + 1) \div 2
         IN  IF mid * mid <= n THEN SqrtBetween(n, mid, hi)
             ELSE SqrtBetween(n, lo, mid - 1)

\* (46340 is the largest whole number whose square is a 32-bit integer)
sqrt(n) == SqrtBetween(n, 0, IF n > 46340 THEN 46340 ELSE n)

IsSquare(n) == sqrt(n) * sqrt(n) = n

\* getBezierPath without the lower limit of the offset
getBezierPathNoFloor(x1, y1, x2, y2) ==
    LET dist == sqrt((x2 - x1) * (x2 - x1) + (y2 - y1) * (y2 - y1))
        cpOffset == QMin(QInt(200), Q(dist, 2))
    IN  [M |-> <<QInt(x1), QInt(y1)>>,
         C1 |-> <<QAdd(QInt(x1), cpOffset), QInt(y1)>>,
         C2 |-> <<QSub(QInt(x2), cpOffset), QInt(y2)>>,
         to |-> <<QInt(x2), QInt(y2)>>]

\* getBezierPath: `M x1 y1 C x1+cpOffset y1, x2-cpOffset y2, x2 y2`, kept as the
\* numbers of the path in their order
getBezierPath(x1, y1, x2, y2) ==
    LET dist == sqrt((x2 - x1) * (x2 - x1) + (y2 - y1) * (y2 - y1))
        cpOffset == QMax(QInt(50), QMin(QInt(200), Q(dist, 2)))
    IN  [M |-> <<QInt(x1), QInt(y1)>>,
         C1 |-> <<QAdd(QInt(x1), cpOffset), QInt(y1)>>,
         C2 |-> <<QSub(QInt(x2), cpOffset), QInt(y2)>>,
         to |-> <<QInt(x2), QInt(y2)>>]

\* updateActivePath: from the centre of the start port's dot to the pointer,
\* both relative to the svg layer
updateActivePath(centre, mouse) ==
    getBezierPath(centre[1] - SvgOrigin[1], centre[2] - SvgOrigin[2],
                  mouse[1] - SvgOrigin[1], mouse[2] - SvgOrigin[2])

\* the path startConnection appends: classes connection-path and preview, no id
PreviewPath == [id |-> <<>>, preview |-> TRUE, selected |-> FALSE]

\* renderConnection: a path with id 'conn-' + conn.id is appended when both
\* ends are found among the elements with a data-connection-id
renderConnection(paths, conn, elements, sourceId, targetId) ==
    IF /\ \E el \in elements : el.connectionId = sourceId
       /\ \E el \in elements : el.connectionId = targetId
    THEN Append(paths, [id |-> <<conn.id>>, preview |-> FALSE, selected |-> FALSE])
    ELSE paths

\* initConnections, setTimeout 0: state.connections.forEach(renderConnection)
RECURSIVE initConnections(_, _)
initConnections(conns, elements) ==
    IF conns = <<>> THEN <<>>
    ELSE LET last == conns[Len(conns)]
         IN  renderConnection(initConnections(SubSeq(conns, 1, Len(conns) - 1), elements),
                              last, elements, last.sourceId, last.targetId)

\* activePath.remove(): the preview path of the gesture under way is the last
\* preview path of the layer
removeActivePath(paths) ==
    LET previews == {i \in 1..Len(paths) : paths[i].preview}
        active == CHOOSE i \in previews : \A j \in previews : j <= i
    IN  IF previews = {} THEN paths
        ELSE SubSeq(paths, 1, active - 1) \o SubSeq(paths, active + 1, Len(paths))

\* completeConnection: the connection made of the two ports' dataset.connectionId
completeConnection(m, sourceEl, targetEl, now) ==
    addConnection(m, [id |-> now, sourceId |-> sourceEl.connectionId,
                      targetId |-> targetEl.connectionId])

\* the wheel listener without its limits
wheelNoClamp(transform, deltaY) ==
    LET direction == IF deltaY > 0 THEN -1 ELSE 1
    IN  [transform EXCEPT !.scale = QAdd(@, Q(direction, 10))]

\* the wheel listener of #detail-cards-container: zoomIntensity 0.1 per notch
wheel(transform, deltaY) ==
    LET direction == IF deltaY > 0 THEN -1 ELSE 1
        newScale == QMin(QMax(Q(1, 5), QAdd(transform.scale, Q(direction, 10))), QInt(3))
    IN  [transform EXCEPT !.scale = newScale]

\* the zoom slider's input listener: currentTransform.scale = parseFloat(value)
zoomSliderInput(transform, val) == [transform EXCEPT !.scale = val]

\* the document's mousemove listener while panning
panMove(transform, from, client) ==
    [transform EXCEPT !.x = @ + (client[1] - from[1]), !.y = @ + (client[2] - from[2])]

\* updateContainerTransform: the wrapper gets translate(x, y) scale(scale) with
\* transform-origin 0 0, so the board point lands at this place of the screen
BoardToScreen(transform, board) ==
    <<QAdd(QInt(DetailOrigin[1] + transform.x), QMul(transform.scale, board[1])),
      QAdd(QInt(DetailOrigin[2] + transform.y), QMul(transform.scale, board[2]))>>

\* getTransformedPoint without the pan
getTransformedPointNoPan(transform, client) ==
    [x |-> QDiv(QSub(client[1], QInt(DetailOrigin[1])), transform.scale),
     y |-> QDiv(QSub(client[2], QInt(DetailOrigin[2])), transform.scale)]

\* getTransformedPoint(clientX, clientY)
getTransformedPoint(transform, client) ==
    [x |-> QDiv(QSub(QSub(client[1], QInt(DetailOrigin[1])), QInt(transform.x)),
                transform.scale),
     y |-> QDiv(QSub(QSub(client[2], QInt(DetailOrigin[2])), QInt(transform.y)),
                transform.scale)]

\* a pointer event's clientX, clientY as fractions
ClientOf(client) == <<QInt(client[1]), QInt(client[2])>>

\* handleDetailConnectionEnd (the definition in force): target is <<>> or
\* <<e.target.closest('.card-connector')>>, startNodeEl the row of the press
handleDetailConnectionEnd(m, startNodeEl, target, points, now) ==
    IF target # <<>> /\ target[1] # startNodeEl
    THEN addConnection(m, [id |-> now, sourceId |-> startNodeEl.connId,
                           targetId |-> target[1].connId])
    ELSE m

----------------------------------------------------------------------------
(* Export of the open bucket (merged script) *)

\* String.prototype.split(sep), sep one token
RECURSIVE split(_, _)
split(str, sep) ==
    LET at == FirstIndex({i \in 1..Len(str) : str[i] = sep})
    IN  IF at = 0 THEN <<str>>
        ELSE <<SubSeq(str, 1, at - 1)>> \o split(SubSeq(str, at + 1, Len(str)), sep)

\* `${value}` of a property that may be undefined
Shown(object, key) == IF key \in DOMAIN object THEN object[key] ELSE Undefined

\* resolveConnId that takes the item label for both names
resolveConnIdItemOnly(connId, bucket) ==
    LET parts == split(connId, ":")
        found == {i \in 1..Len(bucket.items) :
                      Len(parts) >= 2 /\ bucket.items[i].instanceId = parts[2]}
        item == bucket.items[FirstIndex(found)]
    IN  IF found = {} THEN [appName |-> <<"Unknown">>, varLabel |-> <<"Unknown">>]
        ELSE IF "variables" \notin DOMAIN item THEN [throws |-> "TypeError"]
        ELSE [appName |-> Shown(item, "label"), varLabel |-> Shown(item, "label")]

\* resolveConnId: the labels of the item and of the variable an endpoint id
\* names, 'Unknown' for what the bucket does not hold; item.variables.find
\* throws when the item has no variables
resolveConnId(connId, bucket) ==
    LET parts == split(connId, ":")
        found == {i \in 1..Len(bucket.items) :
                      Len(parts) >= 2 /\ bucket.items[i].instanceId = parts[2]}
        item == bucket.items[FirstIndex(found)]
        vars2 == {k \in 1..Len(item.variables) :
                      Len(parts) >= 3 /\ item.variables[k].id = parts[3]}
    IN  IF found = {} THEN [appName |-> <<"Unknown">>, varLabel |-> <<"Unknown">>]
        ELSE IF "variables" \notin DOMAIN item THEN [throws |-> "TypeError"]
        ELSE [appName |-> Shown(item, "label"),
              varLabel |-> IF vars2 = {} THEN <<"Unknown">>
                           ELSE Shown(item.variables[FirstIndex(vars2)], "label")]

\* the connections of the store whose two ends start with bucket.id + ':'
relevantConns(m, bucket) ==
    Filter(m.connections,
           {c \in Range(m.connections) :
                /\ StartsWith(c.sourceId, BucketPrefix(bucket.id))
                /\ StartsWith(c.targetId, BucketPrefix(bucket.id))})

\* `${varLabel} (${appName})`
Named(varLabel, appName) == varLabel \o <<" (">> \o appName \o <<")">>

RECURSIVE Flatten(_)
Flatten(seqs) == IF seqs = <<>> THEN <<>> ELSE Head(seqs) \o Flatten(Tail(seqs))

\* the unmatched strings: the variables of the items whose id no relevant
\* connection has as an end
unmatchedStrings(m, bucket) ==
    LET conns == relevantConns(m, bucket)
        connectedVarIds == {c.sourceId : c \in Range(conns)} \cup
                           {c.targetId : c \in Range(conns)}
        ofItem(item) ==
            IF "variables" \notin DOMAIN item THEN <<>>
            ELSE LET open == {k \in 1..Len(item.variables) :
                                 EndpointId(bucket.id, item.instanceId,
                                            item.variables[k].id) \notin connectedVarIds}
                     RECURSIVE pick(_)
                     pick(k) == IF k > Len(item.variables) THEN <<>>
                                ELSE (IF k \in open
                                      THEN <<Named(Shown(item.variables[k], "label"),
                                                   Shown(item, "label"))>>
                                      ELSE <<>>) \o pick(k + 1)
                 IN  pick(1)
    IN  Flatten([i \in 1..Len(bucket.items) |-> ofItem(bucket.items[i])])

\* handleExportData: <<>> when nothing is downloaded (no bucket open, bucket
\* not found, or an exception caught), else <<the file>>.  formatOverride is
\* the argument: a string, or something else (an event)
handleExportData(m, formatOverride) ==
    LET i == FindById(m.buckets, m.currentOpenBucketId)
        bucket == m.buckets[i]
        format == IF formatOverride.isString THEN formatOverride.value ELSE "json"
        conns == relevantConns(m, bucket)
        metas == [k \in 1..Len(conns) |->
                     [source |-> resolveConnId(conns[k].sourceId, bucket),
                      target |-> resolveConnId(conns[k].targetId, bucket)]]
        thrown == \E k \in 1..Len(conns) :
                      "throws" \in DOMAIN metas[k].source \/ "throws" \in DOMAIN metas[k].target
        matchedStrings == [k \in 1..Len(conns) |->
                              Named(metas[k].source.varLabel, metas[k].source.appName)
                                  \o <<" -> ">> \o
                              Named(metas[k].target.varLabel, metas[k].target.appName)]
        unmatched == unmatchedStrings(m, bucket)
        quoted(strings, k) == IF k <= Len(strings)
                              THEN <<"\"">> \o strings[k] \o <<"\"">> ELSE <<>>
        label == IF "label" \in DOMAIN bucket /\ bucket.label # "" THEN bucket.label
                 ELSE "bucket"
    IN  IF m.currentOpenBucketId = NoId \/ i = 0 \/ thrown THEN <<>>
        ELSE IF format = "csv"
        THEN << [filename |-> <<label, "_export.", "csv">>, mimeType |-> "text/csv",
                 header |-> "Matched Data,Unmatched Data",
                 rows |-> [k \in 1..Max(Len(matchedStrings), Len(unmatched)) |->
                              quoted(matchedStrings, k) \o <<",">> \o quoted(unmatched, k)]] >>
        ELSE << [filename |-> <<label, "_export.", "json">>,
                 mimeType |-> "application/json",
                 content |-> << [Matcheddatas |-> matchedStrings],
                                [UnMatchedData |-> unmatched] >>] >>

\* deleteCard: the context menu's Delete on a card of the open board
deleteCard(m, instanceId) ==
    LET i == FindById(m.buckets, m.currentOpenBucketId)
        newItems == Filter(m.buckets[i].items,
                           {it \in Range(m.buckets[i].items) : it.instanceId # instanceId})
    IN  IF m.currentOpenBucketId = NoId \/ i = 0 THEN m
        ELSE openBucketDetail(updateBucket(m, m.buckets[i].id, [items |-> newItems]),
                              m.buckets[i].id)

----------------------------------------------------------------------------
(* Inputs *)

Variants == {"modules", "merged"}

LoadedBucket ==
    [id |-> B1, x |-> 50, y |-> 50, label |-> "Bucket 1",
     items |-> << [instanceId |-> I1, id |-> <<"app-shop">>,
                   variables |-> << [id |-> VA], [id |-> VB] >>],
                  [instanceId |-> I2, id |-> <<"hub-hook">>,
                   variables |-> << [id |-> VA] >>] >>]

LoadedConnection ==
    [id |-> 7, sourceId |-> EndpointId(B1, I1, VA), targetId |-> EndpointId(B1, I2, VA)]

\* what localStorage holds when the page loads
LoadedStates ==
    { <<>>,
      << [buckets |-> <<LoadedBucket>>, connections |-> <<LoadedConnection>>] >> }

NewBucket == [id |-> B2, x |-> 280, y |-> 50, label |-> "Bucket 2", items |-> <<>>]

NewItem == [instanceId |-> I3, id |-> <<"app-mail">>, variables |-> << [id |-> VA] >>]

NewConnection ==
    [id |-> 8, sourceId |-> EndpointId(B1, I1, VB), targetId |-> EndpointId(B1, I2, VA)]

BucketIdInputs == {B1, BMissing}
InstanceIdInputs == {I1, IMissing}
ConnectionIdInputs == {7, 99}
Renames == {[label |-> "Renamed"]}
Grabs == {<<10, 10>>}
Pointers == {<<300, 200>>}

----------------------------------------------------------------------------
(* The state machine *)

M == [variant |-> variant, buckets |-> buckets, connections |-> connections,
      workflowState |-> workflowState, historyStack |-> historyStack,
      historyIndex |-> historyIndex, log |-> log,
      currentOpenBucketId |-> currentOpenBucketId, cardStyle |-> cardStyle,
      customTemplates |-> customTemplates]

\* the machine as a handler starts: nothing done yet
Begin == [M EXCEPT !.log = <<>>]

Becomes(m) ==
    /\ variant' = m.variant
    /\ buckets' = m.buckets
    /\ connections' = m.connections
    /\ workflowState' = m.workflowState
    /\ historyStack' = m.historyStack
    /\ historyIndex' = m.historyIndex
    /\ log' = m.log
    /\ currentOpenBucketId' = m.currentOpenBucketId
    /\ cardStyle' = m.cardStyle
    /\ customTemplates' = m.customTemplates

Called(op, args) == call' = [op |-> op, args |-> args]

gestures == <<activeDragCardId, activeDragBucketId, currentDragOffset,
              currentCardDragOffset>>
scenario == <<phase, mark, nCalls, nUndos>>
surface == <<ports, startNode, pathD, detailStartNode, currentPathPoints,
             currentTransform, isPanning, panStart, download, layer,
             heap>>

\* the surface as the page shows it after loading
\* no object is tracked: every specification but the aliasing one
NoHeap == [cells |-> <<>>, buckets |-> 0, connections |-> 0, historyStack |-> <<>>,
           historyIndex |-> -1]

IdentityTransform == [x |-> 0, y |-> 0, scale |-> QInt(1)]

DisplayStart ==
    /\ ports = initCanvas(variant, buckets)
    /\ startNode = <<>>
    /\ pathD = <<>>
    /\ detailStartNode = <<>>
    /\ currentPathPoints = <<>>
    /\ currentTransform = IdentityTransform
    /\ isPanning = FALSE
    /\ panStart = <<0, 0>>
    /\ download = <<>>
    /\ layer = initConnections(connections, ports)

SurfaceStart == DisplayStart /\ heap = NoHeap

Init ==
    /\ variant \in Variants
    /\ workflowState \in LoadedStates
    /\ buckets = load(workflowState).buckets
    /\ connections = load(workflowState).connections
    /\ customTemplates = <<>>
    /\ historyStack = <<>>
    /\ historyIndex = -1
    /\ timerPending = TRUE
    /\ log = <<>>
    /\ call = [op |-> "load", args |-> <<>>]
    /\ currentOpenBucketId = NoId
    /\ cardStyle = <<>>
    /\ activeDragCardId = NoId
    /\ activeDragBucketId = NoId
    /\ currentDragOffset = <<0, 0>>
    /\ currentCardDragOffset = <<QInt(0), QInt(0)>>
    /\ ops = 0
    /\ phase = "free"
    /\ mark = <<>>
    /\ nCalls = 0
    /\ nUndos = 0
    /\ SurfaceStart

\* setTimeout(() => commitHistory(), 100)
InitialCommit ==
    /\ timerPending
    /\ timerPending' = FALSE
    /\ Called("timer", <<>>)
    /\ Becomes(commitHistory(Begin))
    /\ UNCHANGED <<gestures, ops>>

Counted == ops < MaxOps /\ ops' = ops + 1

AddBucketCall ==
    /\ Counted
    /\ FindById(buckets, NewBucket.id) = 0
    /\ Called("addBucket", <<NewBucket.id>>)
    /\ Becomes(addBucket(Begin, NewBucket))

UpdateBucketCall ==
    /\ Counted
    /\ \E id \in BucketIdInputs, changes \in Renames :
           /\ Called("updateBucket", <<id>>)
           /\ Becomes(updateBucket(Begin, id, changes))

\* actions.removeBucket as the delete button of a bucket (js/canvas.js, after
\* confirm()) and the context menu's Delete Bucket (merged script) call it
RemoveBucketCall ==
    /\ Counted
    /\ \E id \in BucketIdInputs :
           /\ Called("removeBucket", <<id>>)
           /\ Becomes(removeBucket(Begin, id))

AddItemToBucketCall ==
    /\ Counted
    /\ \A b \in Range(buckets) : FindByInstanceId(b.items, NewItem.instanceId) = 0
    /\ \E id \in BucketIdInputs :
           /\ Called("addItemToBucket", <<id>>)
           /\ Becomes(addItemToBucket(Begin, id, NewItem))

RemoveItemFromBucketCall ==
    /\ Counted
    /\ \E id \in BucketIdInputs, instanceId \in InstanceIdInputs :
           /\ Called("removeItemFromBucket", <<id, instanceId>>)
           /\ Becomes(removeItemFromBucket(Begin, id, instanceId))

AddConnectionCall ==
    /\ Counted
    /\ FindById(connections, NewConnection.id) = 0
    /\ Called("addConnection", <<NewConnection.id>>)
    /\ Becomes(addConnection(Begin, NewConnection))

RemoveConnectionCall ==
    /\ Counted
    /\ \E id \in ConnectionIdInputs :
           /\ Called("removeConnection", <<id>>)
           /\ Becomes(removeConnection(Begin, id))

ClearAllCall ==
    /\ Counted
    /\ Called("clearAll", <<>>)
    /\ Becomes(clearAll(Begin))

\* no pointer gesture is in progress
Idle == activeDragCardId = NoId /\ activeDragBucketId = NoId

\* a call of the store API between gestures
Direct == Idle /\ UNCHANGED <<timerPending, gestures>>

MutatorCall ==
    \/ Direct /\ AddBucketCall
    \/ Direct /\ UpdateBucketCall
    \/ Direct /\ RemoveBucketCall
    \/ Direct /\ AddItemToBucketCall
    \/ Direct /\ RemoveItemFromBucketCall
    \/ Direct /\ AddConnectionCall
    \/ Direct /\ RemoveConnectionCall
    \/ Direct /\ ClearAllCall

UndoCall ==
    /\ Idle
    /\ Called("undo", <<>>)
    /\ Becomes(undo(Begin))
    /\ UNCHANGED <<timerPending, gestures, ops>>

RedoCall ==
    /\ Idle
    /\ Called("redo", <<>>)
    /\ Becomes(redo(Begin))
    /\ UNCHANGED <<timerPending, gestures, ops>>

\* a click on a bucket of the canvas (merged script)
OpenBucketDetail ==
    /\ variant = "merged"
    /\ currentOpenBucketId = NoId
    /\ Idle
    /\ \E i \in 1..Len(buckets) :
           /\ Called("openBucketDetail", <<buckets[i].id>>)
           /\ Becomes(openBucketDetail(Begin, buckets[i].id))
    /\ UNCHANGED <<timerPending, gestures, ops>>

CloseBucketDetail ==
    /\ variant = "merged"
    /\ currentOpenBucketId # NoId
    /\ Idle
    /\ Called("closeBucketDetail", <<>>)
    /\ Becomes(closeBucketDetail(Begin))
    /\ UNCHANGED <<timerPending, gestures, ops>>

\* handleCardDragStart: a left press on a card of the open board
CardDragStart ==
    /\ variant = "merged"
    /\ currentOpenBucketId # NoId
    /\ Idle
    /\ \E instanceId \in DOMAIN cardStyle, grab \in Grabs :
           /\ activeDragCardId' = instanceId
           /\ currentCardDragOffset' =
                  CardGrabOffset(currentTransform, cardStyle[instanceId],
                                 PressAt(DetailOrigin,
                                         <<parseInt(cardStyle[instanceId][1]),
                                           parseInt(cardStyle[instanceId][2])>>, grab))
           /\ Called("handleCardDragStart", <<instanceId>>)
    /\ Becomes(Begin)
    /\ UNCHANGED <<timerPending, activeDragBucketId, currentDragOffset, ops>>

CardDragMove ==
    /\ activeDragCardId # NoId
    /\ \E client \in Pointers :
           /\ Called("handleCardDragMove", <<client>>)
           /\ Becomes(handleCardDragMove(Begin, currentTransform, activeDragCardId,
                                         currentCardDragOffset, client))
    /\ UNCHANGED <<timerPending, gestures, ops>>

\* the document's mouseup listener with a card drag in progress
CardDragEnd ==
    /\ activeDragCardId # NoId
    /\ Counted
    /\ Called("handleCardDragEnd", <<>>)
    /\ Becomes(handleCardDragEnd(Begin, activeDragCardId))
    /\ activeDragCardId' = NoId
    /\ UNCHANGED <<timerPending, activeDragBucketId, currentDragOffset,
                   currentCardDragOffset>>

DeleteCardBtn ==
    /\ variant = "merged"
    /\ currentOpenBucketId # NoId
    /\ Idle
    /\ Counted
    /\ \E instanceId \in DOMAIN cardStyle :
           /\ Called("deleteCardBtn", <<instanceId>>)
           /\ Becomes(deleteCardBtn(Begin, currentOpenBucketId, instanceId))
    /\ UNCHANGED <<timerPending, gestures>>

\* startBucketDrag (js/canvas.js): a press on a bucket header
BucketDragStart ==
    /\ variant = "modules"
    /\ Idle
    /\ \E i \in 1..Len(buckets), grab \in Grabs :
           /\ activeDragBucketId' = buckets[i].id
           /\ currentDragOffset' =
                  BucketGrabOffset(buckets[i],
                                   PressAt(CanvasOrigin, <<buckets[i].x, buckets[i].y>>, grab))
           /\ Called("startBucketDrag", <<buckets[i].id>>)
    /\ Becomes(Begin)
    /\ UNCHANGED <<timerPending, activeDragCardId, currentCardDragOffset, ops>>

BucketDragMove ==
    /\ activeDragBucketId # NoId
    /\ \E client \in Pointers :
           /\ Called("handleBucketDragMove", <<client>>)
           /\ Becomes(handleBucketDragMove(Begin, activeDragBucketId,
                                           currentDragOffset, client))
    /\ UNCHANGED <<timerPending, gestures, ops>>

BucketDragEnd ==
    /\ activeDragBucketId # NoId
    /\ activeDragBucketId' = NoId
    /\ Called("handleBucketDragEnd", <<>>)
    /\ Becomes(Begin)
    /\ UNCHANGED <<timerPending, activeDragCardId, currentDragOffset,
                   currentCardDragOffset, ops>>

Free == phase = "free" /\ UNCHANGED <<scenario, surface>>

Next ==
    \/ Free /\ InitialCommit
    \/ Free /\ Direct /\ AddBucketCall
    \/ Free /\ Direct /\ UpdateBucketCall
    \/ Free /\ Direct /\ RemoveBucketCall
    \/ Free /\ Direct /\ AddItemToBucketCall
    \/ Free /\ Direct /\ RemoveItemFromBucketCall
    \/ Free /\ Direct /\ AddConnectionCall
    \/ Free /\ Direct /\ RemoveConnectionCall
    \/ Free /\ Direct /\ ClearAllCall
    \/ Free /\ UndoCall
    \/ Free /\ RedoCall
    \/ Free /\ OpenBucketDetail
    \/ Free /\ CloseBucketDetail
    \/ Free /\ CardDragStart
    \/ Free /\ CardDragMove
    \/ Free /\ CardDragEnd
    \/ Free /\ DeleteCardBtn
    \/ Free /\ BucketDragStart
    \/ Free /\ BucketDragMove
    \/ Free /\ BucketDragEnd

Spec == Init /\ [][Next]_vars

----------------------------------------------------------------------------
(* Scenarios: a behaviour of Spec in which, at some idle moment, either a    *)
(* sequence of mutator calls followed by as many undo() calls is run, or an  *)
(* undo() immediately followed by a redo().  The graph and the index at the  *)
(* start of the scenario are remembered in mark.                             *)

program == <<variant, buckets, connections, workflowState, historyStack, historyIndex,
             timerPending, log, currentOpenBucketId, cardStyle, customTemplates, call,
             activeDragCardId, activeDragBucketId, currentDragOffset,
             currentCardDragOffset, ops>>

Remember ==
    mark' = << [buckets |-> buckets, connections |-> connections,
                historyIndex |-> historyIndex, settled |-> ~timerPending,
                allCommitted |-> TRUE] >>

\* the sequence starts here
SequenceStart ==
    /\ phase = "free"
    /\ Idle
    /\ phase' = "calls"
    /\ Remember
    /\ nCalls' = 0
    /\ nUndos' = 0
    /\ UNCHANGED program
    /\ UNCHANGED surface

SequenceCall ==
    /\ phase = "calls"
    /\ MutatorCall
    /\ nCalls' = nCalls + 1
    /\ mark' = << [mark[1] EXCEPT !.allCommitted = @ /\ "commit" \in Range(log')] >>
    /\ UNCHANGED <<phase, nUndos>>
    /\ UNCHANGED surface

SequenceUndo ==
    /\ phase \in {"calls", "undos"}
    /\ nUndos < nCalls
    /\ UndoCall
    /\ phase' = "undos"
    /\ nUndos' = nUndos + 1
    /\ UNCHANGED <<mark, nCalls>>
    /\ UNCHANGED surface

\* an undo() that has an effect ...
PairUndo ==
    /\ phase = "free"
    /\ historyIndex > 0
    /\ UndoCall
    /\ phase' = "undone"
    /\ Remember
    /\ UNCHANGED <<nCalls, nUndos>>
    /\ UNCHANGED surface

\* ... immediately followed by redo()
PairRedo ==
    /\ phase = "undone"
    /\ RedoCall
    /\ phase' = "redone"
    /\ UNCHANGED <<mark, nCalls, nUndos>>
    /\ UNCHANGED surface

\* ... or by a mutator call
PairCall ==
    /\ phase = "undone"
    /\ MutatorCall
    /\ phase' = "called"
    /\ UNCHANGED <<mark, nCalls, nUndos>>
    /\ UNCHANGED surface

NextScenario ==
    \/ Next
    \/ SequenceStart
    \/ SequenceCall
    \/ SequenceUndo
    \/ PairUndo
    \/ PairRedo
    \/ PairCall

SpecScenario == Init /\ [][NextScenario]_vars

----------------------------------------------------------------------------
(* Long histories: the page has loaded a graph with one bucket, and the     *)
(* bucket is renamed again and again, with undo() and redo() in between.    *)
(* ops counts the renames, nUndos says whether an undo() has had an effect. *)

LoadedSnapshot == [buckets |-> <<LoadedBucket>>, connections |-> <<LoadedConnection>>]

InitLong == Init /\ workflowState = <<LoadedSnapshot>>

\* the initial commit; mark remembers the first snapshot ever pushed
LongCommit ==
    /\ timerPending
    /\ timerPending' = FALSE
    /\ Called("timer", <<>>)
    /\ Becomes(commitHistory(Begin))
    /\ mark' = IF historyStack = <<>> THEN <<Snapshot(M)>> ELSE mark
    /\ UNCHANGED <<gestures, ops, phase, nCalls, nUndos>>
    /\ UNCHANGED surface

LongRename ==
    /\ ops < MaxLongCommits
    /\ ops' = ops + 1
    /\ \E changes \in Renames :
           /\ Called("updateBucket", <<B1>>)
           /\ Becomes(updateBucket(Begin, B1, changes))
    /\ mark' = IF historyStack = <<>> THEN <<Snapshot(M')>> ELSE mark
    /\ UNCHANGED <<timerPending, gestures, phase, nCalls, nUndos>>
    /\ UNCHANGED surface

LongUndo ==
    /\ UndoCall
    /\ nUndos' = IF log' # <<>> THEN 1 ELSE nUndos
    /\ UNCHANGED <<phase, mark, nCalls>>
    /\ UNCHANGED surface

LongRedo == RedoCall /\ UNCHANGED <<scenario, surface>>

NextLong ==
    \/ LongCommit
    \/ LongRename
    \/ LongUndo
    \/ LongRedo

SpecLong == InitLong /\ [][NextLong]_vars

----------------------------------------------------------------------------
(* Save and load: a graph is in memory, saveState() persists it, and the    *)
(* page is loaded again from what was persisted.                            *)

PlacedBucket ==
    [id |-> B2, x |-> 290, y |-> 190, label |-> "Bucket 2",
     items |-> << [instanceId |-> I3, id |-> <<"app-mail">>, x |-> 100, y |-> 100,
                   variables |-> << [id |-> VA] >>] >>]

\* a connection drawn freehand by an earlier session carries its points
PointsConnection ==
    [id |-> 8, sourceId |-> EndpointId(B1, I1, VB), targetId |-> EndpointId(B1, I2, VA),
     points |-> << [x |-> 12, y |-> 30], [x |-> 40, y |-> 35] >>]

EmptyPointsConnection ==
    [id |-> 9, sourceId |-> EndpointId(B2, I3, VA), targetId |-> EndpointId(B1, I2, VA),
     points |-> <<>>]

RoundTripBuckets ==
    {<<>>, <<LoadedBucket>>, <<PlacedBucket>>, <<LoadedBucket, PlacedBucket>>}

RoundTripConnections ==
    LET C == {LoadedConnection, PointsConnection, EmptyPointsConnection}
    IN  {<<>>} \cup {<<c>> : c \in C} \cup {<<c, d>> : c \in C, d \in C}

InitRoundTrip ==
    /\ variant \in Variants
    /\ workflowState = <<>>
    /\ buckets \in RoundTripBuckets
    /\ connections \in RoundTripConnections
    /\ customTemplates = <<>>
    /\ historyStack = <<>>
    /\ historyIndex = -1
    /\ timerPending = TRUE
    /\ log = <<>>
    /\ call = [op |-> "load", args |-> <<>>]
    /\ currentOpenBucketId = NoId
    /\ cardStyle = <<>>
    /\ activeDragCardId = NoId
    /\ activeDragBucketId = NoId
    /\ currentDragOffset = <<0, 0>>
    /\ currentCardDragOffset = <<QInt(0), QInt(0)>>
    /\ ops = 0
    /\ phase = "memory"
    /\ mark = <<>>
    /\ nCalls = 0
    /\ nUndos = 0
    /\ SurfaceStart

RoundTripSave ==
    /\ phase = "memory"
    /\ phase' = "saved"
    /\ mark' = <<Snapshot(M)>>
    /\ Called("saveState", <<>>)
    /\ Becomes(saveState(Begin))
    /\ UNCHANGED <<timerPending, gestures, ops, nCalls, nUndos>>
    /\ UNCHANGED surface

\* the page is loaded again: the store starts from the persisted value
RoundTripLoad ==
    /\ phase = "saved"
    /\ phase' = "loaded"
    /\ buckets' = load(workflowState).buckets
    /\ connections' = load(workflowState).connections
    /\ Called("load", <<>>)
    /\ log' = <<>>
    /\ UNCHANGED <<variant, workflowState, historyStack, historyIndex, timerPending,
                   currentOpenBucketId, cardStyle, customTemplates, gestures, ops,
                   mark, nCalls, nUndos>>
    /\ UNCHANGED surface

NextRoundTrip ==
    \/ RoundTripSave
    \/ RoundTripLoad

SpecRoundTrip == InitRoundTrip /\ [][NextRoundTrip]_vars

----------------------------------------------------------------------------
(* The connection gestures of the canvas and of the board, and the pan and   *)
(* zoom of the board.  The page has loaded two buckets whose items came from *)
(* the sidebar; the store is reached only through the gestures.              *)

MaxPan == 200       \* pan offsets explored, in either direction
MaxSamples == 2     \* samples of one board gesture explored
MaxSteps == 6       \* handler runs explored per behaviour

ShopItem ==
    [type |-> "sidebar-item", id |-> <<"app-shop">>, nodeType |-> "app",
     instanceId |-> I1, variables |-> << [id |-> VA], [id |-> VB] >>]

HookItem ==
    [type |-> "sidebar-item", id |-> <<"hub-hook">>, nodeType |-> "hub",
     instanceId |-> I3, variables |-> << [id |-> VA] >>]

DroppedItem ==
    [type |-> "sidebar-item", id |-> <<"app-mail">>, nodeType |-> "app",
     instanceId |-> I2, variables |-> << [id |-> VA] >>]

SurfaceStored ==
    [buckets |-> << [id |-> B1, x |-> 50, y |-> 50, label |-> "Bucket 1",
                     items |-> <<ShopItem>>],
                    [id |-> B2, x |-> 280, y |-> 50, label |-> "Bucket 2",
                     items |-> <<HookItem>>] >>,
     connections |-> <<>>]

Buttons == {0, 2}
DotCentres == {<<100, 100>>}
CanvasPointers == {<<100, 100>>, <<160, 180>>, <<400, 500>>}
BoardPointers == {<<100, 100>>, <<200, 150>>}
WheelDeltas == {-100, 100}

\* the values the zoom slider offers
SliderValues == {Q(1, 5), Q(1, 2), Q(3, 1)}

\* Date.now() as a handler reads it
Now == 8 + ops

\* nCalls counts the handler runs here
Step == nCalls < MaxSteps /\ nCalls' = nCalls + 1 /\ UNCHANGED <<phase, mark, nUndos>>

\* no pointer gesture of any kind is in progress
Quiet == Idle /\ startNode = <<>> /\ detailStartNode = <<>> /\ ~isPanning

InitSurface ==
    /\ variant \in Variants
    /\ workflowState = <<SurfaceStored>>
    /\ buckets = load(workflowState).buckets
    /\ connections = load(workflowState).connections
    /\ customTemplates = <<>>
    /\ historyStack = <<>>
    /\ historyIndex = -1
    /\ timerPending = TRUE
    /\ log = <<>>
    /\ call = [op |-> "load", args |-> <<>>]
    /\ currentOpenBucketId = NoId
    /\ cardStyle = <<>>
    /\ activeDragCardId = NoId
    /\ activeDragBucketId = NoId
    /\ currentDragOffset = <<0, 0>>
    /\ currentCardDragOffset = <<QInt(0), QInt(0)>>
    /\ ops = 0
    /\ phase = "free"
    /\ mark = <<>>
    /\ nCalls = 0
    /\ nUndos = 0
    /\ SurfaceStart

store == <<variant, buckets, connections, workflowState, historyStack, historyIndex,
           log, currentOpenBucketId, cardStyle, customTemplates>>

\* the drop listener of a bucket element: a sidebar item is dropped on it
BucketDrop ==
    /\ Step
    /\ Quiet
    /\ Counted
    /\ \A b \in Range(buckets) : FindByInstanceId(b.items, DroppedItem.instanceId) = 0
    /\ \E i \in 1..Len(buckets) :
           LET bucket == buckets[i]
               alreadyExists == \E existing \in Range(bucket.items) :
                                    existing.id = DroppedItem.id
           IN  /\ Called("drop", <<bucket.id>>)
               /\ IF variant = "merged" /\ alreadyExists
                  THEN Becomes(Begin) /\ ports' = ports
                  ELSE /\ Becomes(addItemToBucket(Begin, bucket.id, DroppedItem))
                       /\ ports' = ports \cup createBucketItemDOM(variant, DroppedItem,
                                                                  bucket.id, bucket.id)
    /\ UNCHANGED <<timerPending, download, heap, layer, gestures, startNode, pathD, detailStartNode,
                   currentPathPoints, currentTransform, isPanning, panStart>>

\* the document's mousedown listener over a .variable element: startConnection
ConnectionStart ==
    /\ Step
    /\ Quiet
    /\ currentOpenBucketId = NoId
    /\ \E node \in ports, button \in Buttons, centre \in DotCentres,
          mouse \in CanvasPointers :
           /\ Called("startConnection", <<node.connectionId, button>>)
           /\ IF button # 0
              THEN UNCHANGED <<startNode, pathD, layer>>
              ELSE /\ startNode' = <<node>>
                   /\ pathD' = <<updateActivePath(centre, mouse)>>
                   /\ layer' = Append(layer, PreviewPath)
    /\ Becomes(Begin)
    /\ UNCHANGED <<timerPending, download, heap, gestures, ops, ports, detailStartNode,
                   currentPathPoints, currentTransform, isPanning, panStart>>

\* the document's mousemove listener with a preview path: updateActivePath
ConnectionMove ==
    /\ Step
    /\ startNode # <<>>
    /\ \E centre \in DotCentres, mouse \in CanvasPointers :
           /\ Called("updateActivePath", <<mouse>>)
           /\ pathD' = <<updateActivePath(centre, mouse)>>
    /\ Becomes(Begin)
    /\ UNCHANGED <<timerPending, download, heap, layer, gestures, ops, ports, startNode,
                   detailStartNode, currentPathPoints, currentTransform, isPanning,
                   panStart>>

\* the document's mouseup listener with a preview path; target is <<>> or
\* <<e.target.closest('.variable')>>
ConnectionEnd ==
    /\ Step
    /\ startNode # <<>>
    /\ \E target \in {<<>>} \cup {<<el>> : el \in ports} :
           /\ Called("mouseup", <<IF target = <<>> THEN NoId ELSE target[1].connectionId>>)
           /\ IF target # <<>> /\ target[1] # startNode[1]
              THEN /\ Counted
                   /\ Becomes(completeConnection(Begin, startNode[1], target[1], Now))
                   /\ layer' = renderConnection(layer, [id |-> Now], ports,
                                                startNode[1].connectionId,
                                                target[1].connectionId)
              ELSE /\ Becomes(Begin)
                   /\ ops' = ops
                   /\ layer' = removeActivePath(layer)
    /\ startNode' = <<>>
    /\ pathD' = <<>>
    /\ UNCHANGED <<timerPending, download, heap, gestures, ports, detailStartNode,
                   currentPathPoints, currentTransform, isPanning, panStart>>

\* a click on a bucket of the canvas: openBucketDetail resets the transform
OpenBoard ==
    /\ Step
    /\ Quiet
    /\ OpenBucketDetail
    /\ currentTransform' = IdentityTransform
    /\ UNCHANGED <<download, heap, layer, ports, startNode, pathD, detailStartNode,
                   currentPathPoints, isPanning, panStart>>

CloseBoard ==
    /\ Step
    /\ Quiet
    /\ CloseBucketDetail
    /\ UNCHANGED surface

\* the rows of the board that is open
OpenRows ==
    IF currentOpenBucketId = NoId \/ FindById(buckets, currentOpenBucketId) = 0 THEN {}
    ELSE DetailRows(buckets[FindById(buckets, currentOpenBucketId)])

\* the container's mousedown listener over a .card-connector:
\* handleDetailConnectionStart
DetailConnectionStart ==
    /\ Step
    /\ Quiet
    /\ \E row \in OpenRows, button \in Buttons, client \in BoardPointers :
           /\ Called("handleDetailConnectionStart", <<row.connId, button>>)
           /\ IF button # 0
              THEN UNCHANGED <<detailStartNode, currentPathPoints>>
              ELSE /\ detailStartNode' = <<row>>
                   /\ currentPathPoints' =
                          <<getTransformedPoint(currentTransform, ClientOf(client))>>
    /\ Becomes(Begin)
    /\ UNCHANGED <<timerPending, download, heap, layer, gestures, ops, ports, startNode, pathD,
                   currentTransform, isPanning, panStart>>

\* the document's mousemove listener while not panning:
\* handleDetailConnectionMove
DetailConnectionMove ==
    /\ Step
    /\ detailStartNode # <<>>
    /\ Len(currentPathPoints) < MaxSamples
    /\ \E client \in BoardPointers :
           /\ Called("handleDetailConnectionMove", <<client>>)
           /\ currentPathPoints' =
                  Append(currentPathPoints,
                         getTransformedPoint(currentTransform, ClientOf(client)))
    /\ Becomes(Begin)
    /\ UNCHANGED <<timerPending, download, heap, layer, gestures, ops, ports, startNode, pathD,
                   detailStartNode, currentTransform, isPanning, panStart>>

\* the document's mouseup listener with a board gesture in progress; target is
\* <<>> or <<e.target.closest('.card-connector')>>
DetailConnectionEnd ==
    /\ Step
    /\ detailStartNode # <<>>
    /\ \E target \in {<<>>} \cup {<<ConnectorOf(row)>> : row \in OpenRows} :
           LET after == handleDetailConnectionEnd(Begin, detailStartNode[1], target,
                                                  currentPathPoints, Now)
           IN  /\ Called("handleDetailConnectionEnd",
                         <<IF target = <<>> THEN NoId ELSE target[1].connId>>)
               /\ IF after = Begin THEN ops' = ops ELSE Counted
               /\ Becomes(after)
    /\ detailStartNode' = <<>>
    /\ UNCHANGED <<timerPending, download, heap, layer, gestures, ports, startNode, pathD,
                   currentPathPoints, currentTransform, isPanning, panStart>>

\* the zoom slider's input listener
ZoomSlider ==
    /\ Step
    /\ Quiet
    /\ currentOpenBucketId # NoId
    /\ \E val \in SliderValues :
           /\ Called("zoomSlider", <<val>>)
           /\ currentTransform' = zoomSliderInput(currentTransform, val)
    /\ Becomes(Begin)
    /\ UNCHANGED <<timerPending, download, heap, layer, gestures, ops, ports, startNode, pathD,
                   detailStartNode, currentPathPoints, isPanning, panStart>>

\* the container's wheel listener
Wheel ==
    /\ Step
    /\ Quiet
    /\ currentOpenBucketId # NoId
    /\ \E deltaY \in WheelDeltas :
           /\ Called("wheel", <<deltaY>>)
           /\ currentTransform' = wheel(currentTransform, deltaY)
    /\ Becomes(Begin)
    /\ UNCHANGED <<timerPending, download, heap, layer, gestures, ops, ports, startNode, pathD,
                   detailStartNode, currentPathPoints, isPanning, panStart>>

\* the container's mousedown listener over the background
PanStart ==
    /\ Step
    /\ Quiet
    /\ currentOpenBucketId # NoId
    /\ \E client \in BoardPointers :
           /\ Called("panStart", <<client>>)
           /\ panStart' = client
    /\ isPanning' = TRUE
    /\ Becomes(Begin)
    /\ UNCHANGED <<timerPending, download, heap, layer, gestures, ops, ports, startNode, pathD,
                   detailStartNode, currentPathPoints, currentTransform>>

\* the document's mousemove listener while panning
PanMove ==
    /\ Step
    /\ isPanning
    /\ \E client \in BoardPointers :
           LET moved == panMove(currentTransform, panStart, client)
           IN  /\ Abs(moved.x) <= MaxPan
               /\ Abs(moved.y) <= MaxPan
               /\ Called("panMove", <<client>>)
               /\ currentTransform' = moved
               /\ panStart' = client
    /\ Becomes(Begin)
    /\ UNCHANGED <<timerPending, download, heap, layer, gestures, ops, ports, startNode, pathD,
                   detailStartNode, currentPathPoints, isPanning>>

\* the document's mouseup listener while panning
PanEnd ==
    /\ Step
    /\ isPanning
    /\ isPanning' = FALSE
    /\ Called("panEnd", <<>>)
    /\ Becomes(Begin)
    /\ UNCHANGED <<timerPending, download, heap, layer, gestures, ops, ports, startNode, pathD,
                   detailStartNode, currentPathPoints, currentTransform, panStart>>

NextSurface ==
    \/ Step /\ InitialCommit /\ UNCHANGED surface
    \/ BucketDrop
    \/ ConnectionStart
    \/ ConnectionMove
    \/ ConnectionEnd
    \/ OpenBoard
    \/ CloseBoard
    \/ DetailConnectionStart
    \/ DetailConnectionMove
    \/ DetailConnectionEnd
    \/ ZoomSlider
    \/ Wheel
    \/ PanStart
    \/ PanMove
    \/ PanEnd

SpecSurface == InitSurface /\ [][NextSurface]_vars

----------------------------------------------------------------------------
(* The preview curve of the canvas gesture: the start port's dot sits at a   *)
(* place of the canvas chosen when the page is laid out (kept in mark), and  *)
(* the pointer is pressed and moved to places at whole distances from it.    *)

PreviewCentres == {<<0, 0>>, <<100, 100>>, <<40, 250>>}

PreviewGrid == {-400, -300, -80, -60, 0, 3, 4, 60, 80, 98, 100, 101, 102, 300, 399,
                400, 401}

PreviewOffsets ==
    {d \in PreviewGrid \X PreviewGrid : IsSquare(d[1] * d[1] + d[2] * d[2])}

PreviewPointers(centre) ==
    {<<centre[1] + d[1], centre[2] + d[2]>> : d \in PreviewOffsets}

InitPreview ==
    /\ variant \in Variants
    /\ workflowState \in {<<SurfaceStored>>, <<LoadedSnapshot>>}
    /\ buckets = load(workflowState).buckets
    /\ connections = load(workflowState).connections
    /\ customTemplates = <<>>
    /\ historyStack = <<>>
    /\ historyIndex = -1
    /\ timerPending = TRUE
    /\ log = <<>>
    /\ call = [op |-> "load", args |-> <<>>]
    /\ currentOpenBucketId = NoId
    /\ cardStyle = <<>>
    /\ activeDragCardId = NoId
    /\ activeDragBucketId = NoId
    /\ currentDragOffset = <<0, 0>>
    /\ currentCardDragOffset = <<QInt(0), QInt(0)>>
    /\ ops = 0
    /\ phase = "free"
    /\ mark \in {<<centre>> : centre \in PreviewCentres}
    /\ nCalls = 0
    /\ nUndos = 0
    /\ SurfaceStart

\* startConnection with the left button
PreviewPress ==
    /\ Quiet
    /\ \E node \in ports, mouse \in PreviewPointers(mark[1]) :
           /\ Called("startConnection", <<mouse>>)
           /\ startNode' = <<node>>
           /\ pathD' = <<updateActivePath(mark[1], mouse)>>
    /\ layer' = Append(layer, PreviewPath)
    /\ Becomes(Begin)
    /\ UNCHANGED <<timerPending, download, heap, gestures, ops, scenario, ports, detailStartNode,
                   currentPathPoints, currentTransform, isPanning, panStart>>

\* the document's mousemove listener with a preview path
PreviewMove ==
    /\ startNode # <<>>
    /\ \E mouse \in PreviewPointers(mark[1]) :
           /\ Called("updateActivePath", <<mouse>>)
           /\ pathD' = <<updateActivePath(mark[1], mouse)>>
    /\ Becomes(Begin)
    /\ UNCHANGED <<timerPending, download, heap, layer, gestures, ops, scenario, ports, startNode,
                   detailStartNode, currentPathPoints, currentTransform, isPanning,
                   panStart>>

NextPreview ==
    \/ PreviewPress
    \/ PreviewMove

SpecPreview == InitPreview /\ [][NextPreview]_vars

----------------------------------------------------------------------------
(* The grid layout of the merged script: the page has loaded some buckets   *)
(* wherever they were left, the canvas has some width (kept in mark), and   *)
(* buckets are deleted one after the other.                                 *)

MaxGridBuckets == 5   \* buckets loaded in the layout specification

Digits == <<"1", "2", "3", "4", "5", "6", "7", "8", "9">>

GridBucket(k, at) ==
    [id |-> <<"bucket-", Digits[k]>>, x |-> at[1], y |-> at[2], label |-> "Bucket",
     items |-> <<>>]

\* where the buckets were left: all on one spot, or on a diagonal
GridStored ==
    {[buckets |-> [k \in 1..n |-> GridBucket(k, <<50 + k * step, 50 + k * step>>)],
      connections |-> <<>>] : n \in 1..MaxGridBuckets, step \in {0, 40}}

\* clientWidth of #canvas and window.innerWidth
GridWidths ==
    {[clientWidth |-> w, innerWidth |-> 1280] : w \in {0, 30, 50, 279, 280, 510, 600, 1000}}

InitGrid ==
    /\ variant = "merged"
    /\ workflowState \in {<<stored>> : stored \in GridStored}
    /\ buckets = load(workflowState).buckets
    /\ connections = load(workflowState).connections
    /\ customTemplates = <<>>
    /\ historyStack = <<>>
    /\ historyIndex = -1
    /\ timerPending = TRUE
    /\ log = <<>>
    /\ call = [op |-> "load", args |-> <<>>]
    /\ currentOpenBucketId = NoId
    /\ cardStyle = <<>>
    /\ activeDragCardId = NoId
    /\ activeDragBucketId = NoId
    /\ currentDragOffset = <<0, 0>>
    /\ currentCardDragOffset = <<QInt(0), QInt(0)>>
    /\ ops = 0
    /\ phase = "free"
    /\ mark \in {<<w>> : w \in GridWidths}
    /\ nCalls = 0
    /\ nUndos = 0
    /\ SurfaceStart

GridWidth == containerWidthOf(mark[1].clientWidth, mark[1].innerWidth)

\* Delete Bucket, confirmed: actions.removeBucket lays the grid out again
GridRemoveBucket ==
    /\ Counted
    /\ \E i \in 1..Len(buckets) :
           /\ Called("removeBucket", <<buckets[i].id>>)
           /\ Becomes(removeBucketIn(Begin, buckets[i].id, GridWidth))
    /\ UNCHANGED <<timerPending, gestures, scenario, surface>>

NextGrid ==
    \/ Free /\ InitialCommit
    \/ GridRemoveBucket

SpecGrid == InitGrid /\ [][NextGrid]_vars

----------------------------------------------------------------------------
(* Export: the merged script has loaded two buckets of labelled items and   *)
(* some connections; boards are opened and closed, cards are deleted from   *)
(* the context menu, and the open bucket is exported.                       *)

ShopCard ==
    [type |-> "sidebar-item", id |-> <<"app-shop">>, nodeType |-> "app",
     label |-> <<"Shopify">>, instanceId |-> I1, x |-> 100, y |-> 100,
     variables |-> << [id |-> VA, label |-> <<"Order">>],
                      [id |-> VB, label |-> <<"Total">>] >>]

MailCard ==
    [type |-> "sidebar-item", id |-> <<"app-mail">>, nodeType |-> "app",
     label |-> <<"Mailer">>, instanceId |-> I2, x |-> 450, y |-> 100,
     variables |-> << [id |-> VA, label |-> <<"Order">>] >>]

HookCard ==
    [type |-> "sidebar-item", id |-> <<"hub-hook">>, nodeType |-> "hub",
     label |-> <<"Webhook">>, instanceId |-> I3, x |-> 100, y |-> 100,
     variables |-> << [id |-> VA, label |-> <<"Payload">>] >>]

\* connections as completeConnection and handleDetailConnectionEnd store them
ExportConnections ==
    { [id |-> 7, sourceId |-> EndpointId(B1, I1, VA), targetId |-> EndpointId(B1, I2, VA)],
      [id |-> 8, sourceId |-> EndpointId(B1, I1, VB), targetId |-> EndpointId(B2, I3, VA)],
      [id |-> 9, sourceId |-> EndpointId(B2, I3, VA), targetId |-> EndpointId(B2, I3, VA)],
      [id |-> 10, sourceId |-> EndpointId(B1, I2, VA), targetId |-> EndpointId(B1, I1, VB)] }

ExportStored ==
    {[buckets |-> << [id |-> B1, x |-> 50, y |-> 50, label |-> "Bucket 1",
                      items |-> <<ShopCard, MailCard>>],
                     [id |-> B2, x |-> 280, y |-> 50, label |-> "",
                      items |-> <<HookCard>>] >>,
      connections |-> conns] :
         conns \in {<<>>} \cup {<<c>> : c \in ExportConnections}
                   \cup ({<<c, d>> : c, d \in ExportConnections} \ {<<c, c>> : c \in ExportConnections})}

\* what the caller passes to handleExportData: a format, or the click event
FormatOverrides ==
    {[isString |-> TRUE, value |-> "json"], [isString |-> TRUE, value |-> "csv"],
     [isString |-> FALSE]}

InitExport ==
    /\ variant = "merged"
    /\ workflowState \in {<<stored>> : stored \in ExportStored}
    /\ buckets = load(workflowState).buckets
    /\ connections = load(workflowState).connections
    /\ customTemplates = <<>>
    /\ historyStack = <<>>
    /\ historyIndex = -1
    /\ timerPending = TRUE
    /\ log = <<>>
    /\ call = [op |-> "load", args |-> <<>>]
    /\ currentOpenBucketId = NoId
    /\ cardStyle = <<>>
    /\ activeDragCardId = NoId
    /\ activeDragBucketId = NoId
    /\ currentDragOffset = <<0, 0>>
    /\ currentCardDragOffset = <<QInt(0), QInt(0)>>
    /\ ops = 0
    /\ phase = "free"
    /\ mark = <<>>
    /\ nCalls = 0
    /\ nUndos = 0
    /\ SurfaceStart

\* the context menu of a card of the open board, Delete
ContextDeleteCard ==
    /\ variant = "merged"
    /\ currentOpenBucketId # NoId
    /\ Counted
    /\ \E instanceId \in DOMAIN cardStyle :
           /\ Called("deleteCard", <<instanceId>>)
           /\ Becomes(deleteCard(Begin, instanceId))
    /\ UNCHANGED <<timerPending, gestures, scenario, surface>>

\* the delete-card button of a card of the open board: confirm(), then the
\* removal when the answer is OK
DeleteCardAsked ==
    /\ variant = "merged"
    /\ currentOpenBucketId # NoId
    /\ Counted
    /\ \E instanceId \in DOMAIN cardStyle, answer \in BOOLEAN :
           /\ Called("delete-card-btn", <<instanceId, answer>>)
           /\ Becomes(IF answer THEN deleteCardBtn(Begin, currentOpenBucketId, instanceId)
                      ELSE Begin)
    /\ UNCHANGED <<timerPending, gestures, scenario, surface>>

\* the context menu of a bucket, Delete Bucket: confirm(), then removeBucket
DeleteBucketAsked ==
    /\ variant = "merged"
    /\ currentOpenBucketId = NoId
    /\ Counted
    /\ \E i \in 1..Len(buckets), answer \in BOOLEAN :
           /\ Called("Delete Bucket", <<buckets[i].id, answer>>)
           /\ Becomes(IF answer THEN removeBucket(Begin, buckets[i].id) ELSE Begin)
    /\ UNCHANGED <<timerPending, gestures, scenario, surface>>

\* the export buttons
ExportData ==
    /\ \E formatOverride \in FormatOverrides :
           LET file == handleExportData(M, formatOverride)
           IN  /\ Called("handleExportData", <<formatOverride, file # <<>>>>)
               /\ download' = IF file = <<>> THEN download ELSE file
    /\ UNCHANGED <<store, heap, timerPending, gestures, ops, scenario, layer, ports, startNode, pathD,
                   detailStartNode, currentPathPoints, currentTransform, isPanning,
                   panStart>>

NextExport ==
    \/ Free /\ InitialCommit
    \/ Free /\ OpenBucketDetail
    \/ Free /\ CloseBucketDetail
    \/ ContextDeleteCard
    \/ DeleteCardAsked
    \/ DeleteBucketAsked
    \/ ExportData

SpecExport == InitExport /\ [][NextExport]_vars

----------------------------------------------------------------------------
(* Drops: a drag ends over the canvas or over a bucket, with whatever text  *)
(* the drag source put under 'application/json'.                            *)

CREATE_GAP_Y == 50   \* GAP_Y of createBucket in the merged script

SidebarData ==
    [type |-> "sidebar-item", id |-> <<"app-mail">>, label |-> <<"Mailer">>,
     nodeType |-> "app", variables |-> << [id |-> VA, label |-> <<"Order">>] >>]

\* what e.dataTransfer.getData('application/json') returns: nothing, the
\* sidebar's JSON.stringify, JSON of something else, or text that is not JSON
EmptyText == [text |-> "", wellFormed |-> FALSE]
DropTexts ==
    {EmptyText,
     [text |-> "sidebar", wellFormed |-> TRUE, value |-> SidebarData],
     [text |-> "other", wellFormed |-> TRUE, value |-> [type |-> "file"]],
     [text |-> "{broken", wellFormed |-> FALSE]}

DropPointers == {<<300, 200>>, <<640, 400>>}

\* JSON.parse: the value of well-formed text, a SyntaxError for the rest
JSONparse(json) ==
    IF json.wellFormed THEN [value |-> json.value] ELSE [throws |-> "SyntaxError"]

\* `Bucket ${nextIndex}`
BucketLabels == <<"Bucket 1", "Bucket 2", "Bucket 3", "Bucket 4", "Bucket 5", "Bucket 6",
                 "Bucket 7", "Bucket 8">>

\* Date.now() at the handler's run
Stamp == Digits[4 + ops]

\* createBucket in a canvas of the given width: the new bucket around the
\* dropped item
createBucketIn(m, itemData, client, containerWidth) ==
    LET items == << ObjectAssign(itemData, [instanceId |-> <<"item-", Stamp>>]) >>
        cols == Max(1, (containerWidth - START_X) \div (BUCKET_WIDTH + GAP_X))
        currentIndex == Len(m.buckets)
    IN  IF m.variant = "modules"
        THEN [id |-> <<"bucket-", Stamp>>, x |-> client[1] - CanvasOrigin[1] - 150,
              y |-> client[2] - CanvasOrigin[2] - 20, items |-> items]
        ELSE [id |-> <<"bucket-", Stamp>>,
              x |-> START_X + (currentIndex % cols) * (BUCKET_WIDTH + GAP_X),
              y |-> START_Y + (currentIndex \div cols) * (BUCKET_HEIGHT + CREATE_GAP_Y),
              items |-> items, label |-> BucketLabels[Len(m.buckets) + 1]]

createBucket(m, itemData, client) == createBucketIn(m, itemData, client, ContainerWidth)

\* handleCanvasDrop: the machine after it, the bucket it rendered if any, and
\* how the handler ended
handleCanvasDrop(m, json, overBucket, client) ==
    LET parsed == JSONparse(json)
        bucket == createBucket(m, parsed.value, client)
    IN  IF json = EmptyText THEN [m |-> m, rendered |-> <<>>, ended |-> "returned"]
        ELSE IF "throws" \in DOMAIN parsed
        THEN [m |-> m, rendered |-> <<>>, ended |-> "caught"]
        ELSE IF parsed.value.type = "sidebar-item" /\ ~overBucket
        THEN [m |-> addBucket(m, bucket), rendered |-> <<bucket>>, ended |-> "returned"]
        ELSE [m |-> m, rendered |-> <<>>, ended |-> "returned"]

\* the drop listener renderBucket gives a bucket element
bucketDrop(m, json, bucket) ==
    LET parsed == JSONparse(json)
        data == parsed.value
        alreadyExists == \E existing \in Range(bucket.items) : existing.id = data.id
        newItem == ObjectAssign(data, [instanceId |-> <<"item-", Stamp>>])
    IN  IF json = EmptyText THEN [m |-> m, rendered |-> <<>>, ended |-> "returned"]
        ELSE IF "throws" \in DOMAIN parsed
        THEN [m |-> m, rendered |-> <<>>, ended |-> "threw"]
        ELSE IF data.type # "sidebar-item" \/ (m.variant = "merged" /\ alreadyExists)
        THEN [m |-> m, rendered |-> <<>>, ended |-> "returned"]
        ELSE [m |-> addItemToBucket(m, bucket.id, newItem), rendered |-> <<newItem>>,
              ended |-> "returned"]

CanvasDrop ==
    /\ Counted
    /\ \E json \in DropTexts, overBucket \in BOOLEAN, client \in DropPointers :
           LET after == handleCanvasDrop(Begin, json, overBucket, client)
           IN  /\ Called("canvas drop", <<json, after.ended>>)
               /\ Becomes(after.m)
               /\ ports' = ports \cup UNION {renderBucket(variant, b) :
                                                b \in Range(after.rendered)}
    /\ UNCHANGED <<timerPending, gestures, scenario, startNode, pathD, detailStartNode,
                   currentPathPoints, currentTransform, isPanning, panStart, download, heap,
                   layer>>

BucketDropText ==
    /\ Counted
    /\ \E json \in DropTexts, i \in 1..Len(buckets) :
           LET after == bucketDrop(Begin, json, buckets[i])
           IN  /\ Called("bucket drop", <<json, after.ended>>)
               /\ Becomes(after.m)
               /\ ports' = ports \cup UNION {createBucketItemDOM(variant, item, buckets[i].id,
                                                                 buckets[i].id) :
                                                item \in Range(after.rendered)}
    /\ UNCHANGED <<timerPending, gestures, scenario, startNode, pathD, detailStartNode,
                   currentPathPoints, currentTransform, isPanning, panStart, download, heap,
                   layer>>

NextDrop ==
    \/ Free /\ InitialCommit
    \/ CanvasDrop
    \/ BucketDropText

SpecDrop == Init /\ [][NextDrop]_vars

----------------------------------------------------------------------------
(* Pointer events as the listeners receive them: every press, move and      *)
(* release runs the whole listener, whatever gesture is or is not under way. *)
(* On the board the press is taken to be somewhere over its target.         *)

BoardTargets ==
    {[kind |-> "background"]}
        \cup {[kind |-> "card", id |-> cardId] : cardId \in DOMAIN cardStyle}
        \cup {ConnectorOf(row) : row \in OpenRows}

\* the mousedown listener of #detail-cards-container
BoardMouseDown ==
    /\ Step
    /\ variant = "merged"
    /\ currentOpenBucketId # NoId
    /\ \E target \in BoardTargets, button \in Buttons, client \in BoardPointers :
           /\ Called("board mousedown", <<target.kind, button>>)
           /\ IF target.kind = "connector"
              THEN /\ IF button # 0
                      THEN UNCHANGED <<detailStartNode, currentPathPoints>>
                      ELSE /\ detailStartNode' = <<[kind |-> "row", connId |-> target.connId]>>
                           /\ currentPathPoints' =
                                  <<getTransformedPoint(currentTransform, ClientOf(client))>>
                   /\ UNCHANGED <<activeDragCardId, currentCardDragOffset, isPanning, panStart>>
              ELSE IF target.kind = "card"
              THEN /\ IF button # 0
                      THEN UNCHANGED <<activeDragCardId, currentCardDragOffset>>
                      ELSE /\ activeDragCardId' = target.id
                           /\ currentCardDragOffset' =
                                  CardGrabOffset(currentTransform, cardStyle[target.id], client)
                   /\ UNCHANGED <<detailStartNode, currentPathPoints, isPanning, panStart>>
              ELSE /\ isPanning' = TRUE
                   /\ panStart' = client
                   /\ UNCHANGED <<detailStartNode, currentPathPoints, activeDragCardId,
                                  currentCardDragOffset>>
    /\ Becomes(Begin)
    /\ UNCHANGED <<timerPending, ops, activeDragBucketId, currentDragOffset, ports,
                   startNode, pathD, currentTransform, download, heap, layer>>

\* the document's mousemove listener of initDetailOverlay, with a board
\* gesture under way
BoardMouseMove ==
    /\ Step
    /\ variant = "merged"
    /\ isPanning \/ activeDragCardId # NoId \/ detailStartNode # <<>>
    /\ \E client \in BoardPointers :
           /\ Called("board mousemove", <<client>>)
           /\ IF isPanning
              THEN LET moved == panMove(currentTransform, panStart, client)
                   IN  /\ Abs(moved.x) <= MaxPan
                       /\ Abs(moved.y) <= MaxPan
                       /\ currentTransform' = moved
                       /\ panStart' = client
                       /\ Becomes(Begin)
                       /\ UNCHANGED currentPathPoints
              ELSE /\ Becomes(handleCardDragMove(Begin, currentTransform, activeDragCardId,
                                                 currentCardDragOffset, client))
                   /\ IF detailStartNode # <<>>
                      THEN /\ Len(currentPathPoints) < MaxSamples
                           /\ currentPathPoints' =
                                  Append(currentPathPoints,
                                         getTransformedPoint(currentTransform, ClientOf(client)))
                      ELSE UNCHANGED currentPathPoints
                   /\ UNCHANGED <<currentTransform, panStart>>
    /\ UNCHANGED <<timerPending, ops, gestures, ports, startNode, pathD, detailStartNode,
                   isPanning, download, heap, layer>>

\* the document's mouseup listener of initDetailOverlay: the pan ends, then
\* handleCardDragEnd and handleDetailConnectionEnd run; target is <<>> or
\* <<e.target.closest('.card-connector')>>
BoardMouseUp ==
    /\ Step
    /\ variant = "merged"
    /\ currentOpenBucketId # NoId
    /\ \E target \in {<<>>} \cup {<<ConnectorOf(row)>> : row \in OpenRows} :
           LET dropped == handleCardDragEnd(Begin, activeDragCardId)
               after == IF detailStartNode = <<>> THEN dropped
                        ELSE handleDetailConnectionEnd(dropped, detailStartNode[1], target,
                                                       currentPathPoints, Now)
           IN  /\ Called("board mouseup",
                         <<IF target = <<>> THEN NoId ELSE target[1].connId>>)
               /\ IF after = Begin THEN ops' = ops ELSE Counted
               /\ Becomes(after)
    /\ isPanning' = FALSE
    /\ activeDragCardId' = NoId
    /\ detailStartNode' = <<>>
    /\ UNCHANGED <<timerPending, activeDragBucketId, currentDragOffset,
                   currentCardDragOffset, ports, startNode, pathD, currentPathPoints,
                   currentTransform, panStart, download, heap, layer>>

NextPointer ==
    \/ Step /\ InitialCommit /\ UNCHANGED surface
    \/ OpenBoard
    \/ CloseBoard
    \/ Wheel
    \/ BoardMouseDown
    \/ BoardMouseMove
    \/ BoardMouseUp
    \/ Step /\ BucketDragStart /\ UNCHANGED surface
    \/ Step /\ BucketDragMove /\ UNCHANGED surface
    \/ Step /\ BucketDragEnd /\ UNCHANGED surface
    \/ ConnectionStart
    \/ ConnectionMove
    \/ ConnectionEnd

SpecPointer == InitSurface /\ [][NextPointer]_vars

----------------------------------------------------------------------------
(* Edges of the canvas: connections are drawn, their paths are clicked, the *)
(* page is clicked elsewhere, keys are pressed, and undo() is called.       *)
(* Which paths a click can land on is decided by the style sheet; here it   *)
(* can land on any path of the layer.                                       *)

NotANumber == -1   \* parseInt(''): NaN, equal to no connection id

\* a second stored connection, made before connection 7
OlderConnection ==
    [id |-> 6, sourceId |-> EndpointId(B1, I1, VB), targetId |-> EndpointId(B1, I2, VA)]

EdgeStored ==
    {[buckets |-> <<LoadedBucket>>, connections |-> conns] :
        conns \in {<<>>, <<LoadedConnection>>, <<OlderConnection, LoadedConnection>>}}

Keys == {"Delete", "Backspace", "Enter"}

InitEdges ==
    /\ variant \in Variants
    /\ workflowState \in {<<stored>> : stored \in EdgeStored}
    /\ buckets = load(workflowState).buckets
    /\ connections = load(workflowState).connections
    /\ customTemplates = <<>>
    /\ historyStack = <<>>
    /\ historyIndex = -1
    /\ timerPending = TRUE
    /\ log = <<>>
    /\ call = [op |-> "load", args |-> <<>>]
    /\ currentOpenBucketId = NoId
    /\ cardStyle = <<>>
    /\ activeDragCardId = NoId
    /\ activeDragBucketId = NoId
    /\ currentDragOffset = <<0, 0>>
    /\ currentCardDragOffset = <<QInt(0), QInt(0)>>
    /\ ops = 0
    /\ phase = "free"
    /\ mark = <<>>
    /\ nCalls = 0
    /\ nUndos = 0
    /\ SurfaceStart

\* the click listener of the layer, on a path: the mark moves to that path
selectPath(paths, i) == [j \in 1..Len(paths) |-> [paths[j] EXCEPT !.selected = (j = i)]]

\* the document's click listener, away from every path
deselectAll(paths) == [j \in 1..Len(paths) |-> [paths[j] EXCEPT !.selected = FALSE]]

\* parseInt(selected.id.replace('conn-', ''))
connIdOf(path) == IF path.id = <<>> THEN NotANumber ELSE path.id[1]

\* the keydown listener that deletes the first path of the layer
keydownFirstPath(m, paths, key) ==
    LET selected == FirstIndex({i \in 1..Len(paths) : paths[i].selected})
    IN  IF key \notin {"Delete", "Backspace"} \/ selected = 0
        THEN [m |-> m, paths |-> paths]
        ELSE [m |-> removeConnection(m, connIdOf(paths[1])), paths |-> Tail(paths)]

\* the keydown listener: Delete or Backspace with a selected path calls
\* actions.removeConnection and removes the path
keydown(m, paths, key) ==
    LET selected == FirstIndex({i \in 1..Len(paths) : paths[i].selected})
    IN  IF key \notin {"Delete", "Backspace"} \/ selected = 0
        THEN [m |-> m, paths |-> paths]
        ELSE [m |-> removeConnection(m, connIdOf(paths[selected])),
              paths |-> SubSeq(paths, 1, selected - 1)
                            \o SubSeq(paths, selected + 1, Len(paths))]

PathClick ==
    /\ Step
    /\ Quiet
    /\ \E i \in 1..Len(layer) :
           /\ Called("path click", <<i>>)
           /\ layer' = selectPath(layer, i)
    /\ Becomes(Begin)
    /\ UNCHANGED <<timerPending, gestures, ops, ports, startNode, pathD, detailStartNode,
                   currentPathPoints, currentTransform, isPanning, panStart, download, heap>>

ElsewhereClick ==
    /\ Step
    /\ Quiet
    /\ Called("click", <<>>)
    /\ layer' = deselectAll(layer)
    /\ Becomes(Begin)
    /\ UNCHANGED <<timerPending, gestures, ops, ports, startNode, pathD, detailStartNode,
                   currentPathPoints, currentTransform, isPanning, panStart, download, heap>>

KeyDown ==
    /\ Step
    /\ \E key \in Keys :
           LET after == keydown(Begin, layer, key)
           IN  /\ Called("keydown", <<key>>)
               /\ IF after.m = Begin THEN ops' = ops ELSE Counted
               /\ Becomes(after.m)
               /\ layer' = after.paths
    /\ UNCHANGED <<timerPending, gestures, ports, startNode, pathD, detailStartNode,
                   currentPathPoints, currentTransform, isPanning, panStart, download, heap>>

NextEdges ==
    \/ Step /\ InitialCommit /\ UNCHANGED surface
    \/ ConnectionStart
    \/ ConnectionEnd
    \/ PathClick
    \/ ElsewhereClick
    \/ KeyDown
    \/ Step /\ UndoCall /\ UNCHANGED surface

SpecEdges == InitEdges /\ [][NextEdges]_vars

----------------------------------------------------------------------------
(* Cards: the merged script has loaded a bucket whose items have the ids    *)
(* item-1, item-12 and item-2, a second bucket, one custom template and     *)
(* some connections; boards are opened, cards are disconnected and items    *)
(* are deleted through every path the page offers.                          *)

I12 == <<"item-", "1", "2">>
CustomId == <<"custom-", "app-", "5">>

CustomTemplate ==
    [id |-> CustomId, label |-> <<"Ledger">>, nodeType |-> "app",
     variables |-> << [id |-> VA, label |-> <<"Entry">>] >>]

LedgerCard ==
    [type |-> "sidebar-item", id |-> CustomId, nodeType |-> "app",
     label |-> <<"Ledger">>, instanceId |-> I12, x |-> 450, y |-> 100,
     variables |-> << [id |-> VA, label |-> <<"Entry">>] >>]

NoteCard ==
    [type |-> "sidebar-item", id |-> <<"note">>, nodeType |-> "empty",
     label |-> <<"Note">>, instanceId |-> I2, x |-> 800, y |-> 100,
     variables |-> << [id |-> VA, label |-> <<"Text">>] >>]

CardConnections ==
    << [id |-> 11, sourceId |-> EndpointId(B1, I1, VA), targetId |-> EndpointId(B1, I2, VA)],
       [id |-> 12, sourceId |-> EndpointId(B1, I12, VA), targetId |-> EndpointId(B1, I2, VA)],
       [id |-> 13, sourceId |-> EndpointId(B2, I3, VA), targetId |-> EndpointId(B1, I1, VB)],
       [id |-> 14, sourceId |-> EndpointId(B1, I12, VA), targetId |-> EndpointId(B2, I3, VA)] >>

CardStored ==
    {[buckets |-> << [id |-> B1, x |-> 50, y |-> 50, label |-> "Bucket 1",
                      items |-> <<ShopCard, LedgerCard, NoteCard>>],
                     [id |-> B2, x |-> 280, y |-> 50, label |-> "Bucket 2",
                      items |-> <<HookCard>>] >>,
      connections |-> conns,
      customTemplates |-> <<CustomTemplate>>] :
         conns \in {<<>>, CardConnections}
                   \cup {<<CardConnections[i]>> : i \in 1..4}
                   \cup {<<CardConnections[p[1]], CardConnections[p[2]]>> :
                            p \in {q \in (1..4) \X (1..4) : q[1] < q[2]}}}

InitCards ==
    /\ variant = "merged"
    /\ workflowState \in {<<stored>> : stored \in CardStored}
    /\ buckets = load(workflowState).buckets
    /\ connections = load(workflowState).connections
    /\ customTemplates = workflowState[1].customTemplates
    /\ historyStack = <<>>
    /\ historyIndex = -1
    /\ timerPending = TRUE
    /\ log = <<>>
    /\ call = [op |-> "load", args |-> <<>>]
    /\ currentOpenBucketId = NoId
    /\ cardStyle = <<>>
    /\ activeDragCardId = NoId
    /\ activeDragBucketId = NoId
    /\ currentDragOffset = <<0, 0>>
    /\ currentCardDragOffset = <<QInt(0), QInt(0)>>
    /\ ops = 0
    /\ phase = "free"
    /\ mark = <<>>
    /\ nCalls = 0
    /\ nUndos = 0
    /\ SurfaceStart

\* toRemove.forEach(c => actions.removeConnection(c.id))
RECURSIVE removeEach(_, _)
removeEach(m, toRemove) ==
    IF toRemove = <<>> THEN m
    ELSE removeEach(removeConnection(m, Head(toRemove).id), Tail(toRemove))

disconnectPoint(m, connId) ==
    LET toRemove == Filter(m.connections,
                           {c \in Range(m.connections) :
                               c.sourceId = connId \/ c.targetId = connId})
    IN  IF m.currentOpenBucketId = NoId \/ connId = <<>> THEN m
        ELSE IF toRemove = <<>> THEN m
        ELSE removeEach(m, toRemove)

disconnectAllCardConnections(m, instanceId) ==
    LET prefix == m.currentOpenBucketId \o <<":">> \o instanceId
        toRemove == Filter(m.connections,
                           {c \in Range(m.connections) :
                               Includes(c.sourceId, prefix) \/ Includes(c.targetId, prefix)})
    IN  IF m.currentOpenBucketId = NoId THEN m
        ELSE removeEach(m, toRemove)

\* removalTasks of deleteSidebarItem: every instance of the template, bucket by bucket
RECURSIVE removalTasks(_, _)
removalTasks(bs, id) ==
    IF bs = <<>> THEN <<>>
    ELSE LET bucket == Head(bs)
             hits == Filter(bucket.items, {it \in Range(bucket.items) : it.id = id})
         IN  [k \in 1..Len(hits) |-> [bucketId |-> bucket.id, instanceId |-> hits[k].instanceId]]
             \o removalTasks(Tail(bs), id)

RECURSIVE executeRemovals(_, _)
executeRemovals(m, tasks) ==
    IF tasks = <<>> THEN m
    ELSE executeRemovals(removeItemFromBucket(m, Head(tasks).bucketId, Head(tasks).instanceId),
                         Tail(tasks))

\* deleteSidebarItem, confirm() accepted
deleteSidebarItem(m, id) ==
    LET m1 == saveState([m EXCEPT !.customTemplates =
                            Filter(@, {t \in Range(@) : t.id # id})])
    IN  saveState(executeRemovals(m1, removalTasks(m.buckets, id)))

\* the context menu of a card of the open board, Disconnect All
DisconnectAll ==
    /\ variant = "merged"
    /\ currentOpenBucketId # NoId
    /\ Counted
    /\ \E instanceId \in DOMAIN cardStyle :
           /\ Called("disconnectAllCardConnections", <<instanceId>>)
           /\ Becomes(disconnectAllCardConnections(Begin, instanceId))
    /\ UNCHANGED <<timerPending, gestures, scenario, surface>>

\* the context menu of a variable row of the open board, Disconnect This Point
DisconnectPoint ==
    /\ variant = "merged"
    /\ currentOpenBucketId # NoId
    /\ Counted
    /\ \E row \in DetailRows(buckets[FindById(buckets, currentOpenBucketId)]) :
           /\ Called("disconnectPoint", <<row.connId>>)
           /\ Becomes(disconnectPoint(Begin, row.connId))
    /\ UNCHANGED <<timerPending, gestures, scenario, surface>>

\* the delete-item-btn of an item shown in a bucket of the canvas: confirm(),
\* then removeItemFromBucket
ListItemRemove ==
    /\ variant = "merged"
    /\ currentOpenBucketId = NoId
    /\ Counted
    /\ \E i \in 1..Len(buckets), answer \in BOOLEAN :
       \E item \in {it \in Range(buckets[i].items) : it.nodeType \notin {"app", "hub"}} :
           /\ Called("delete-item-btn", <<buckets[i].id, item.instanceId, answer>>)
           /\ Becomes(IF answer
                      THEN removeItemFromBucket(Begin, buckets[i].id, item.instanceId)
                      ELSE Begin)
    /\ UNCHANGED <<timerPending, gestures, scenario, surface>>

\* the context menu of a custom item of the sidebar, Delete Custom Item
DeleteSidebarItem ==
    /\ variant = "merged"
    /\ currentOpenBucketId = NoId
    /\ Counted
    /\ \E t \in Range(customTemplates), answer \in BOOLEAN :
           /\ Called("deleteSidebarItem", <<t.id, answer>>)
           /\ Becomes(IF answer THEN deleteSidebarItem(Begin, t.id) ELSE Begin)
    /\ UNCHANGED <<timerPending, gestures, scenario, surface>>

NextCards ==
    \/ Free /\ InitialCommit
    \/ Free /\ OpenBucketDetail
    \/ Free /\ CloseBucketDetail
    \/ DisconnectAll
    \/ DisconnectPoint
    \/ ContextDeleteCard
    \/ DeleteCardAsked
    \/ ListItemRemove
    \/ DeleteSidebarItem

SpecCards == InitCards /\ [][NextCards]_vars

----------------------------------------------------------------------------
(* Release: presses and moves as before, and the release as the document    *)
(* sees it: one mouseup event runs every mouseup listener the script has    *)
(* registered, in the order of their registration.                          *)

\* what the release lands on: nothing of interest, a .variable of the canvas,
\* or a .card-connector of the open board
ReleaseTargets ==
    {[kind |-> "elsewhere"]}
        \cup {[kind |-> "variable", el |-> el] : el \in ports}
        \cup {[kind |-> "connector", el |-> ConnectorOf(row)] : row \in OpenRows}

\* the gestures the script keeps track of
Gestures ==
    [startNode |-> startNode, pathD |-> pathD, activeDragBucketId |-> activeDragBucketId,
     activeDragCardId |-> activeDragCardId, isPanning |-> isPanning,
     detailStartNode |-> detailStartNode]

\* those of them that are under way
Active(g) ==
    {k \in {"startNode", "pathD", "detailStartNode"} : g[k] # <<>>}
        \cup {k \in {"activeDragBucketId", "activeDragCardId"} : g[k] # NoId}
        \cup {k \in {"isPanning"} : g[k]}

\* the mouseup listeners with a board listener that leaves the pan on when a
\* card or a connection is released
mouseupPanLast(build, g) ==
    LET connection == IF g.pathD # <<>>
                      THEN [g EXCEPT !.pathD = <<>>, !.startNode = <<>>]
                      ELSE g
        bucket == [connection EXCEPT !.activeDragBucketId = NoId]
    IN  IF build = "merged"
        THEN [bucket EXCEPT !.isPanning = @ /\ (g.activeDragCardId # NoId
                                                   \/ g.detailStartNode # <<>>),
                            !.activeDragCardId = NoId,
                            !.detailStartNode = <<>>]
        ELSE bucket

\* the gestures after the mouseup listeners: initConnections' (activePath and
\* startNode, when there is a path), handleBucketDragEnd, and in the merged
\* script the listener of initDetailOverlay (isPanning, handleCardDragEnd,
\* handleDetailConnectionEnd)
mouseup(build, g) ==
    LET connection == IF g.pathD # <<>>
                      THEN [g EXCEPT !.pathD = <<>>, !.startNode = <<>>]
                      ELSE g
        bucket == [connection EXCEPT !.activeDragBucketId = NoId]
    IN  IF build = "merged"
        THEN [bucket EXCEPT !.isPanning = FALSE,
                            !.activeDragCardId = NoId,
                            !.detailStartNode = <<>>]
        ELSE bucket

\* one mouseup event on the document
DocumentMouseUp ==
    /\ Step
    /\ \E target \in ReleaseTargets :
           LET variable == IF target.kind = "variable" THEN <<target.el>> ELSE <<>>
               connector == IF target.kind = "connector" THEN <<target.el>> ELSE <<>>
               completes == /\ pathD # <<>>
                            /\ variable # <<>>
                            /\ variable[1] # startNode[1]
               connected == IF completes
                            THEN completeConnection(Begin, startNode[1], variable[1], Now)
                            ELSE Begin
               dropped == IF variant = "merged"
                          THEN handleCardDragEnd(connected, activeDragCardId)
                          ELSE connected
               after == IF variant = "merged" /\ detailStartNode # <<>>
                        THEN handleDetailConnectionEnd(dropped, detailStartNode[1],
                                                       connector, currentPathPoints, Now)
                        ELSE dropped
               released == mouseup(variant, Gestures)
           IN  /\ Called("mouseup", <<target.kind, Active(Gestures)>>)
               /\ IF after = Begin THEN ops' = ops ELSE Counted
               /\ Becomes(after)
               /\ layer' = IF pathD = <<>> THEN layer
                           ELSE IF completes
                           THEN renderConnection(layer, [id |-> Now], ports,
                                                 startNode[1].connectionId,
                                                 variable[1].connectionId)
                           ELSE removeActivePath(layer)
               /\ startNode' = released.startNode
               /\ pathD' = released.pathD
               /\ activeDragBucketId' = released.activeDragBucketId
               /\ activeDragCardId' = released.activeDragCardId
               /\ isPanning' = released.isPanning
               /\ detailStartNode' = released.detailStartNode
    /\ UNCHANGED <<timerPending, currentDragOffset, currentCardDragOffset, ports,
                   currentPathPoints, currentTransform, panStart, download, heap>>

NextRelease ==
    \/ Step /\ InitialCommit /\ UNCHANGED surface
    \/ OpenBoard
    \/ CloseBoard
    \/ BoardMouseDown
    \/ BoardMouseMove
    \/ Step /\ BucketDragStart /\ UNCHANGED surface
    \/ Step /\ BucketDragMove /\ UNCHANGED surface
    \/ ConnectionStart
    \/ ConnectionMove
    \/ DocumentMouseUp

SpecRelease == InitSurface /\ [][NextRelease]_vars

----------------------------------------------------------------------------
(* Startup: the handlers of the page from the load on, with the graph that  *)
(* was loaded remembered in mark.                                           *)

InitStartup ==
    /\ variant \in Variants
    /\ workflowState \in LoadedStates
    /\ buckets = load(workflowState).buckets
    /\ connections = load(workflowState).connections
    /\ customTemplates = <<>>
    /\ historyStack = <<>>
    /\ historyIndex = -1
    /\ timerPending = TRUE
    /\ log = <<>>
    /\ call = [op |-> "load", args |-> <<>>]
    /\ currentOpenBucketId = NoId
    /\ cardStyle = <<>>
    /\ activeDragCardId = NoId
    /\ activeDragBucketId = NoId
    /\ currentDragOffset = <<0, 0>>
    /\ currentCardDragOffset = <<QInt(0), QInt(0)>>
    /\ ops = 0
    /\ phase = "free"
    /\ mark = <<load(workflowState)>>
    /\ nCalls = 0
    /\ nUndos = 0
    /\ SurfaceStart

SpecStartup == InitStartup /\ [][Next]_vars

----------------------------------------------------------------------------
(* Creation and layout: the merged script in a canvas of some width, with   *)
(* one or two buckets loaded; sidebar items are dropped on the empty canvas *)
(* and buckets are deleted.                                                 *)

MaxLayoutOps == 3      \* drops and deletions explored per behaviour

InitLayout ==
    /\ InitGrid
    /\ Len(buckets) <= 2

\* a sidebar item dropped on the empty canvas: createBucket
LayoutCreateBucket ==
    /\ ops < MaxLayoutOps
    /\ ops' = ops + 1
    /\ LET bucket == createBucketIn(Begin, SidebarData, <<300, 200>>, GridWidth)
       IN  /\ Called("createBucket", <<bucket.id>>)
           /\ Becomes(addBucket(Begin, bucket))
           /\ ports' = ports \cup renderBucket(variant, bucket)
    /\ UNCHANGED <<timerPending, gestures, scenario, startNode, pathD, detailStartNode,
                   currentPathPoints, currentTransform, isPanning, panStart, download, heap,
                   layer>>

\* Delete Bucket, confirmed
LayoutRemoveBucket ==
    /\ ops < MaxLayoutOps
    /\ ops' = ops + 1
    /\ \E i \in 1..Len(buckets) :
           /\ Called("removeBucket", <<buckets[i].id>>)
           /\ Becomes(removeBucketIn(Begin, buckets[i].id, GridWidth))
    /\ UNCHANGED <<timerPending, gestures, scenario, surface>>

NextLayout ==
    \/ Free /\ InitialCommit
    \/ LayoutCreateBucket
    \/ LayoutRemoveBucket

SpecLayout == InitLayout /\ [][NextLayout]_vars

----------------------------------------------------------------------------
(* Objects: the store as the arrays and objects the script holds.  A cell   *)
(* of heap.cells is an array of references, a bucket (its own properties    *)
(* and the reference of its items array), a plain object (item or           *)
(* connection) or a snapshot; a reference is the index of a cell.  The      *)
(* mutators change cells in place where the code does, and the store        *)
(* variables carry the values the same calls produce.                       *)

MaxHeapOps == 3        \* calls of the store API explored on the objects

\* JSON.stringify: the value the object behind a reference serialises to
RECURSIVE stringify(_, _)
stringify(cells, ref) ==
    LET cell == cells[ref]
    IN  CASE cell.type = "array" ->
                 [i \in 1..Len(cell.elems) |-> stringify(cells, cell.elems[i])]
          [] cell.type = "bucket" ->
                 [k \in DOMAIN cell.own \cup {"items"} |->
                     IF k = "items" THEN stringify(cells, cell.items) ELSE cell.own[k]]
          [] cell.type = "plain" -> cell.own
          [] cell.type = "snapshot" ->
                 [buckets |-> stringify(cells, cell.buckets),
                  connections |-> stringify(cells, cell.connections)]

\* JSON.parse of an array of items or connections: fresh objects in a fresh array
parsePlain(cells, values) ==
    LET n == Len(cells)
        objects == [i \in 1..Len(values) |-> [type |-> "plain", own |-> values[i]]]
        array == [type |-> "array", elems |-> [i \in 1..Len(values) |-> n + i]]
    IN  [cells |-> (cells \o objects) \o <<array>>, ref |-> n + Len(values) + 1]

\* a fresh bucket object with a fresh items array
parseBucket(cells, value) ==
    LET items == parsePlain(cells, value.items)
        bucket == [type |-> "bucket",
                   own |-> [k \in DOMAIN value \ {"items"} |-> value[k]],
                   items |-> items.ref]
    IN  [cells |-> Append(items.cells, bucket), ref |-> Len(items.cells) + 1]

\* JSON.parse of an array of buckets
RECURSIVE parseBuckets(_, _, _)
parseBuckets(cells, values, refs) ==
    IF values = <<>>
    THEN [cells |-> Append(cells, [type |-> "array", elems |-> refs]),
          ref |-> Len(cells) + 1]
    ELSE LET bucket == parseBucket(cells, Head(values))
         IN  parseBuckets(bucket.cells, Tail(values), Append(refs, bucket.ref))

\* the objects after the load at startup
loadOn(stored) ==
    LET bs == parseBuckets(<<>>, load(stored).buckets, <<>>)
        cs == parsePlain(bs.cells, load(stored).connections)
    IN  [cells |-> cs.cells, buckets |-> bs.ref, connections |-> cs.ref,
         historyStack |-> <<>>, historyIndex |-> -1]

\* commitHistory that pushes the live arrays themselves
commitHistoryShares(h) ==
    LET cut == IF h.historyIndex < Len(h.historyStack) - 1
               THEN SubSeq(h.historyStack, 1, h.historyIndex + 1)
               ELSE h.historyStack
        snapshot == [type |-> "snapshot", buckets |-> h.buckets,
                     connections |-> h.connections]
        pushed == Append(cut, Len(h.cells) + 1)
        over == Len(pushed) > MAX_HISTORY
    IN  [h EXCEPT !.cells = Append(h.cells, snapshot),
                  !.historyStack = IF over THEN Tail(pushed) ELSE pushed,
                  !.historyIndex = IF over THEN @ ELSE @ + 1]

\* commitHistory: JSON.parse(JSON.stringify({buckets, connections})) is pushed
commitHistoryOn(h) ==
    LET cut == IF h.historyIndex < Len(h.historyStack) - 1
               THEN SubSeq(h.historyStack, 1, h.historyIndex + 1)
               ELSE h.historyStack
        bs == parseBuckets(h.cells, stringify(h.cells, h.buckets), <<>>)
        cs == parsePlain(bs.cells, stringify(h.cells, h.connections))
        snapshot == [type |-> "snapshot", buckets |-> bs.ref, connections |-> cs.ref]
        pushed == Append(cut, Len(cs.cells) + 1)
        over == Len(pushed) > MAX_HISTORY
    IN  [h EXCEPT !.cells = Append(cs.cells, snapshot),
                  !.historyStack = IF over THEN Tail(pushed) ELSE pushed,
                  !.historyIndex = IF over THEN @ ELSE @ + 1]

\* state.buckets.find(x => x.id === id): the reference of the bucket, 0 for none
findBucketOn(h, id) ==
    LET elems == h.cells[h.buckets].elems
        i == FirstIndex({k \in 1..Len(elems) : h.cells[elems[k]].own.id = id})
    IN  IF i = 0 THEN 0 ELSE elems[i]

\* array.filter on an array of references: a fresh array of the kept references
filterOn(cells, ref, keep(_)) ==
    LET elems == cells[ref].elems
        kept == Filter(elems, {e \in Range(elems) : keep(cells[e].own)})
    IN  [cells |-> Append(cells, [type |-> "array", elems |-> kept]),
         ref |-> Len(cells) + 1]

addBucketOn(h, bucket) ==
    LET made == parseBucket(h.cells, bucket)
    IN  commitHistoryOn([h EXCEPT !.cells =
            [made.cells EXCEPT ![h.buckets].elems = Append(@, made.ref)]])

updateBucketOn(h, id, changes) ==
    LET b == findBucketOn(h, id)
    IN  IF b = 0 THEN h
        ELSE commitHistoryOn([h EXCEPT !.cells[b].own = ObjectAssign(@, changes)])

\* the merged script re-lays the grid out: bucket.x and bucket.y are assigned
\* on the kept bucket objects
removeBucketOn(h, build, id) ==
    LET kept == filterOn(h.cells, h.buckets, LAMBDA own : own.id # id)
        elems == kept.cells[kept.ref].elems
        values == [k \in 1..Len(elems) |-> kept.cells[elems[k]].own]
        laid == reLayout([buckets |-> values]).buckets
        placed == [a \in 1..Len(kept.cells) |->
                      IF build = "merged" /\ a \in Range(elems)
                      THEN [kept.cells[a] EXCEPT
                               !.own = laid[FirstIndex({k \in 1..Len(elems) : elems[k] = a})]]
                      ELSE kept.cells[a]]
    IN  commitHistoryOn([h EXCEPT !.cells = placed, !.buckets = kept.ref])

addItemToBucketOn(h, bucketId, item) ==
    LET b == findBucketOn(h, bucketId)
        cells == Append(h.cells, [type |-> "plain", own |-> item])
    IN  IF b = 0 THEN h
        ELSE commitHistoryOn([h EXCEPT !.cells =
                 [cells EXCEPT ![h.cells[b].items].elems = Append(@, Len(cells))]])

removeItemFromBucketOn(h, bucketId, instanceId) ==
    LET b == findBucketOn(h, bucketId)
        elems == h.cells[h.cells[b].items].elems
        idx == FirstIndex({k \in 1..Len(elems) :
                              h.cells[elems[k]].own.instanceId = instanceId})
    IN  IF b = 0 THEN h
        ELSE IF idx = 0 THEN h
        ELSE commitHistoryOn([h EXCEPT !.cells[h.cells[b].items].elems =
                 SubSeq(@, 1, idx - 1) \o SubSeq(@, idx + 1, Len(@))])

addConnectionOn(h, conn) ==
    LET cells == Append(h.cells, [type |-> "plain", own |-> conn])
    IN  commitHistoryOn([h EXCEPT !.cells =
            [cells EXCEPT ![h.connections].elems = Append(@, Len(cells))]])

removeConnectionOn(h, id) ==
    LET kept == filterOn(h.cells, h.connections, LAMBDA own : own.id # id)
    IN  commitHistoryOn([h EXCEPT !.cells = kept.cells, !.connections = kept.ref])

clearAllOn(h) ==
    LET empty == [type |-> "array", elems |-> <<>>]
    IN  commitHistoryOn([h EXCEPT !.cells = (h.cells \o <<empty>>) \o <<empty>>,
                                  !.buckets = Len(h.cells) + 1,
                                  !.connections = Len(h.cells) + 2])

\* undo and redo: state.buckets and state.connections become
\* JSON.parse(JSON.stringify(...)) of the snapshot's
RestoreOn(h, index) ==
    LET snapshot == h.cells[h.historyStack[index + 1]]
        bs == parseBuckets(h.cells, stringify(h.cells, snapshot.buckets), <<>>)
        cs == parsePlain(bs.cells, stringify(h.cells, snapshot.connections))
    IN  [h EXCEPT !.cells = cs.cells, !.buckets = bs.ref, !.connections = cs.ref,
                  !.historyIndex = index]

undoOn(h) == IF h.historyIndex > 0 THEN RestoreOn(h, h.historyIndex - 1) ELSE h

redoOn(h) ==
    IF h.historyIndex < Len(h.historyStack) - 1 THEN RestoreOn(h, h.historyIndex + 1) ELSE h

InitObjects ==
    /\ variant \in Variants
    /\ workflowState \in LoadedStates
    /\ buckets = load(workflowState).buckets
    /\ connections = load(workflowState).connections
    /\ heap = loadOn(workflowState)
    /\ customTemplates = <<>>
    /\ historyStack = <<>>
    /\ historyIndex = -1
    /\ timerPending = TRUE
    /\ log = <<>>
    /\ call = [op |-> "load", args |-> <<>>]
    /\ currentOpenBucketId = NoId
    /\ cardStyle = <<>>
    /\ activeDragCardId = NoId
    /\ activeDragBucketId = NoId
    /\ currentDragOffset = <<0, 0>>
    /\ currentCardDragOffset = <<QInt(0), QInt(0)>>
    /\ ops = 0
    /\ phase = "free"
    /\ mark = <<>>
    /\ nCalls = 0
    /\ nUndos = 0
    /\ DisplayStart

\* everything of the surface but the objects
display == <<ports, startNode, pathD, detailStartNode, currentPathPoints,
             currentTransform, isPanning, panStart, download, layer>>

\* a call of the store API, followed on the objects
OnObjects ==
    /\ ops < MaxHeapOps
    /\ ops' = ops + 1
    /\ UNCHANGED <<timerPending, gestures, phase, mark, nCalls, display>>

\* nUndos counts the restores made so far
Restored == nUndos' = IF log' # <<>> THEN nUndos + 1 ELSE nUndos

ObjectsInitialCommit ==
    /\ timerPending
    /\ timerPending' = FALSE
    /\ Called("timer", <<>>)
    /\ Becomes(commitHistory(Begin))
    /\ heap' = commitHistoryOn(heap)
    /\ UNCHANGED <<gestures, ops, scenario, display>>

ObjectsAddBucket ==
    /\ OnObjects
    /\ UNCHANGED nUndos
    /\ FindById(buckets, NewBucket.id) = 0
    /\ Called("addBucket", <<NewBucket.id>>)
    /\ Becomes(addBucket(Begin, NewBucket))
    /\ heap' = addBucketOn(heap, NewBucket)

ObjectsUpdateBucket ==
    /\ OnObjects
    /\ UNCHANGED nUndos
    /\ \E id \in BucketIdInputs, changes \in Renames :
           /\ Called("updateBucket", <<id>>)
           /\ Becomes(updateBucket(Begin, id, changes))
           /\ heap' = updateBucketOn(heap, id, changes)

ObjectsRemoveBucket ==
    /\ OnObjects
    /\ UNCHANGED nUndos
    /\ \E id \in BucketIdInputs :
           /\ Called("removeBucket", <<id>>)
           /\ Becomes(removeBucket(Begin, id))
           /\ heap' = removeBucketOn(heap, variant, id)

ObjectsAddItemToBucket ==
    /\ OnObjects
    /\ UNCHANGED nUndos
    /\ \A b \in Range(buckets) : FindByInstanceId(b.items, NewItem.instanceId) = 0
    /\ \E id \in BucketIdInputs :
           /\ Called("addItemToBucket", <<id>>)
           /\ Becomes(addItemToBucket(Begin, id, NewItem))
           /\ heap' = addItemToBucketOn(heap, id, NewItem)

ObjectsRemoveItemFromBucket ==
    /\ OnObjects
    /\ UNCHANGED nUndos
    /\ \E id \in BucketIdInputs, instanceId \in InstanceIdInputs :
           /\ Called("removeItemFromBucket", <<id, instanceId>>)
           /\ Becomes(removeItemFromBucket(Begin, id, instanceId))
           /\ heap' = removeItemFromBucketOn(heap, id, instanceId)

ObjectsAddConnection ==
    /\ OnObjects
    /\ UNCHANGED nUndos
    /\ FindById(connections, NewConnection.id) = 0
    /\ Called("addConnection", <<NewConnection.id>>)
    /\ Becomes(addConnection(Begin, NewConnection))
    /\ heap' = addConnectionOn(heap, NewConnection)

ObjectsRemoveConnection ==
    /\ OnObjects
    /\ UNCHANGED nUndos
    /\ \E id \in ConnectionIdInputs :
           /\ Called("removeConnection", <<id>>)
           /\ Becomes(removeConnection(Begin, id))
           /\ heap' = removeConnectionOn(heap, id)

ObjectsClearAll ==
    /\ OnObjects
    /\ UNCHANGED nUndos
    /\ Called("clearAll", <<>>)
    /\ Becomes(clearAll(Begin))
    /\ heap' = clearAllOn(heap)

ObjectsUndo ==
    /\ OnObjects
    /\ Called("undo", <<>>)
    /\ Becomes(undo(Begin))
    /\ heap' = undoOn(heap)
    /\ Restored

ObjectsRedo ==
    /\ OnObjects
    /\ Called("redo", <<>>)
    /\ Becomes(redo(Begin))
    /\ heap' = redoOn(heap)
    /\ Restored

NextObjects ==
    \/ ObjectsInitialCommit
    \/ ObjectsAddBucket
    \/ ObjectsUpdateBucket
    \/ ObjectsRemoveBucket
    \/ ObjectsAddItemToBucket
    \/ ObjectsRemoveItemFromBucket
    \/ ObjectsAddConnection
    \/ ObjectsRemoveConnection
    \/ ObjectsClearAll
    \/ ObjectsUndo
    \/ ObjectsRedo

SpecObjects == InitObjects /\ [][NextObjects]_vars

----------------------------------------------------------------------------
(* Properties *)

Mutators == {"addBucket", "updateBucket", "removeBucket", "addItemToBucket",
             "removeItemFromBucket", "addConnection", "removeConnection", "clearAll"}

Graph == <<buckets, connections>>
History == <<historyStack, historyIndex>>

\* the step is a call of updateBucket, addItemToBucket or removeItemFromBucket
\* whose id (or instance id) matches nothing in the store
LookupFails ==
    \/ /\ call'.op \in {"updateBucket", "addItemToBucket"}
       /\ FindById(buckets, call'.args[1]) = 0
    \/ /\ call'.op = "removeItemFromBucket"
       /\ LET i == FindById(buckets, call'.args[1])
          IN  i = 0 \/ FindByInstanceId(buckets[i].items, call'.args[2]) = 0

\* the step is one of the five calls named by C10, with an id that matches nothing
MissingIdCall ==
    \/ LookupFails
    \/ call'.op = "removeBucket" /\ FindById(buckets, call'.args[1]) = 0
    \/ call'.op = "removeConnection" /\ FindById(connections, call'.args[1]) = 0

\* what one commitHistory() makes of the stack when the graph is graph
Pushed(graph) ==
    LET cut == SubSeq(historyStack, 1, historyIndex + 1)
        pushed == Append(cut, graph)
    IN  IF Len(pushed) > MAX_HISTORY THEN Tail(pushed) ELSE pushed

Positions(s, e) == {i \in 1..Len(s) : s[i] = e}

Notifications == {"bucket:added", "bucket:updated", "bucket:removed",
                  "connection:added", "connection:removed", "reset"}

\* the step saved, then notified, then committed once: one snapshot of the new
\* graph is on top of the stack
CommitsOnce ==
    /\ Cardinality(Positions(log', "commit")) = 1
    /\ \E i, j, k \in 1..Len(log') :
           /\ i < j /\ j < k
           /\ log'[i] = "save" /\ log'[j] \in Notifications /\ log'[k] = "commit"
    /\ historyStack' = Pushed(Snapshot(M'))
    /\ historyIndex' = Len(historyStack') - 1

\* the graphs that zero or more undo() calls bring back, starting from m
RECURSIVE UndoReach(_)
UndoReach(m) ==
    LET n == undo(m)
    IN  IF n.historyIndex >= m.historyIndex THEN {Snapshot(m), Snapshot(n)}
        ELSE {Snapshot(m)} \cup UndoReach(n)

\* C1: after a sequence of N mutator calls followed by N undo() calls, buckets
\* and connections equal their values from before the sequence.  Read in the
\* claim's favour: the initial commit has happened before the sequence, every
\* call of the sequence committed, and N is far below 50.
C1_UndoRestores ==
    (phase = "undos" /\ nUndos = nCalls /\ mark[1].settled /\ mark[1].allCommitted)
        => (buckets = mark[1].buckets /\ connections = mark[1].connections)

\* C2: an undo() that has an effect, immediately followed by redo(), leaves
\* buckets, connections and historyIndex at their values from before the undo().
C2_RedoRestores ==
    phase = "redone"
        => /\ buckets = mark[1].buckets
           /\ connections = mark[1].connections
           /\ historyIndex = mark[1].historyIndex

\* C3: the stack never holds more than MAX_HISTORY snapshots, and once it holds
\* one, historyIndex is the index of one of them (0 .. length - 1), whatever the
\* interleaving of mutator calls, undo() and redo().
C3_HistoryBounds ==
    /\ Len(historyStack) <= MAX_HISTORY
    /\ historyStack # <<>> => (0 <= historyIndex /\ historyIndex <= Len(historyStack) - 1)

\* a full stack that has evicted, with the index moved below the top by undo()
C3_Witness ==
    /\ Len(historyStack) = MAX_HISTORY
    /\ ops > MAX_HISTORY
    /\ nUndos = 1
    /\ historyIndex < MAX_HISTORY - 1

C4_EvictionStep ==
    (/\ Len(historyStack) = MAX_HISTORY
     /\ historyIndex = MAX_HISTORY - 1
     /\ "commit" \in Range(log'))
        => /\ historyIndex' = historyIndex
           /\ historyStack' = Tail(historyStack) \o <<Snapshot(M')>>
           /\ historyStack'[historyIndex' + 1] = Snapshot(M')

C4_FirstSnapshotGone ==
    (mark = <<LoadedSnapshot>> /\ nUndos = 0 /\ ops >= MAX_HISTORY)
        => LoadedSnapshot \notin UndoReach(M)

\* C4 as stated: a commit onto a full stack (50 snapshots, the index on the
\* newest) evicts the oldest snapshot and leaves historyIndex as it is, so that
\* it points at the snapshot just pushed; and after 51 commits (the initial one
\* and 50 calls) no number of undo() calls brings the first snapshot back.
C4_FirstGoneAfter51Commits ==
    /\ [][C4_EvictionStep]_vars
    /\ []((mark = <<LoadedSnapshot>> /\ ops >= MAX_HISTORY)
             => LoadedSnapshot \notin UndoReach(M))

\* C4 amended: the same, for 51 commits with no undo() between them.  A commit
\* made after undo() calls cuts the stack at the index instead of evicting, and
\* the first snapshot can then outlive 51 commits.
C4_Eviction == [][C4_EvictionStep]_vars /\ []C4_FirstSnapshotGone

\* the 51st commit has just evicted the snapshot of the loaded graph
C4_Witness ==
    /\ mark = <<LoadedSnapshot>>
    /\ nUndos = 0
    /\ ops = MAX_HISTORY
    /\ Len(historyStack) = MAX_HISTORY
    /\ historyIndex = MAX_HISTORY - 1
    /\ "commit" \in Range(log)

C5_FutureDiscarded ==
    /\ historyStack' = Pushed(Snapshot(M'))
    /\ historyIndex' = Len(historyStack') - 1
    /\ redo(M') = M'

\* C5 as stated: any mutator call made right after an undo() that had an effect
\* leaves the stack cut at the index plus the new snapshot, historyIndex on the
\* top, and redo() without effect.
C5_AnyCallDiscardsFuture ==
    [][(call.op = "undo" /\ log # <<>> /\ call'.op \in Mutators)
           => C5_FutureDiscarded]_vars

\* C5 amended: the same for the calls that commit, that is every call but an
\* updateBucket, addItemToBucket or removeItemFromBucket whose lookup fails;
\* those leave the history, and so the redo() future, as it is.
C5_CommittingCallDiscardsFuture ==
    [][(call.op = "undo" /\ log # <<>> /\ call'.op \in Mutators)
           => IF LookupFails THEN UNCHANGED History ELSE C5_FutureDiscarded]_vars

\* a call has committed right after an undo() that left a future
C5_Witness ==
    /\ phase = "called"
    /\ "commit" \in Range(log)
    /\ historyIndex = mark[1].historyIndex
    /\ historyIndex = Len(historyStack) - 1

\* C6: undo() with historyIndex <= 0 and redo() with historyIndex on the top of
\* the stack change neither the history nor the graph nor the persisted value,
\* and emit nothing.
C6_BoundaryNoOp ==
    [][(\/ call'.op = "undo" /\ historyIndex <= 0
        \/ call'.op = "redo" /\ historyIndex = Len(historyStack) - 1)
           => UNCHANGED <<History, Graph, workflowState>> /\ log' = <<>>]_vars

\* undo() has just been called on the bottom of a stack that has a future
C6_Witness ==
    /\ call.op = "undo"
    /\ log = <<>>
    /\ historyIndex = 0
    /\ Len(historyStack) > 1

\* C7: after removeBucket(B), no connection has a sourceId or a targetId that
\* starts with B followed by ':'.
C7_RemoveBucketRemovesConnections ==
    [][call'.op = "removeBucket"
           => \A i \in 1..Len(connections') :
                  /\ ~StartsWith(connections'[i].sourceId, BucketPrefix(call'.args[1]))
                  /\ ~StartsWith(connections'[i].targetId, BucketPrefix(call'.args[1]))]_vars

\* C8: between handlers, once a snapshot has been committed and with no gesture
\* in progress, the current snapshot equals the live buckets and connections.
C8_CurrentSnapshotIsLive ==
    (historyStack # <<>> /\ Idle) => historyStack[historyIndex + 1] = Snapshot(M)

\* C9 as stated: every call of a mutator saves, notifies and then commits
\* exactly once.
C9_EveryCallCommitsOnce ==
    [][call'.op \in Mutators => CommitsOnce]_vars

\* C9 amended: every call of a mutator saves, notifies and then commits exactly
\* once, except an updateBucket, addItemToBucket or removeItemFromBucket whose
\* lookup fails: that call saves nothing, emits nothing and commits nothing.
C9_CallCommitsOnceUnlessLookupFails ==
    [][call'.op \in Mutators
           => IF LookupFails
              THEN log' = <<>> /\ UNCHANGED <<History, Graph, workflowState>>
              ELSE CommitsOnce]_vars

\* updateBucket has just renamed a bucket that exists
C9_Witness ==
    /\ call = [op |-> "updateBucket", args |-> <<B1>>]
    /\ log = <<"save", "bucket:updated", "commit", "history:updated">>

\* C10: a call of updateBucket, removeBucket, addItemToBucket,
\* removeItemFromBucket or removeConnection with an id that matches nothing
\* leaves the graph, the persisted value and the history as they are.
C10_MissingIdIsNoOp ==
    [][MissingIdCall => UNCHANGED <<Graph, workflowState, History>>]_vars

\* C11: buckets and connections (with the x and y of buckets and items) change
\* only inside a method of actions: a step that changes them has gone through
\* one, and every method of actions that changes the graph persists it.
C11_StoreChangesOnlyThroughActions ==
    [][Graph' # Graph => "save" \in Range(log')]_vars

\* C12: saveState() followed by the load done at startup yields buckets and
\* connections equal to the ones that were in memory, a connection's points
\* array (or its absence) included.
C12_SaveLoadRoundTrip ==
    phase = "loaded" => Snapshot(M) = mark[1]

\* a graph with a connection that has points and one that has none was loaded
C12_Witness ==
    /\ phase = "loaded"
    /\ buckets # <<>>
    /\ \E i, j \in 1..Len(connections) :
           /\ "points" \in DOMAIN connections[i]
           /\ connections[i].points # <<>>
           /\ "points" \notin DOMAIN connections[j]

\* the connection gestures that can end in a store call
GestureEnds == {"mouseup", "handleDetailConnectionEnd"}

\* a gesture's release has just added a connection
GestureAdded ==
    /\ call'.op \in GestureEnds
    /\ Len(connections') = Len(connections) + 1

\* C13: in the canvas gesture and in the board gesture alike, a release adds a
\* connection only over a port other than the one the gesture started on, so
\* no gesture adds a connection whose sourceId equals its targetId.
C13_NoSelfConnection ==
    [][GestureAdded =>
          /\ call'.args[1] # NoId
          /\ connections'[Len(connections')].sourceId #
                 connections'[Len(connections')].targetId]_vars

\* the store and the history as the gesture in progress found them
Persisted == <<buckets, connections, workflowState, historyStack, historyIndex>>

\* a release over no port, or over the port of the press
ReleasedOffTarget ==
    /\ call'.op \in GestureEnds
    /\ \/ call'.args[1] = NoId
       \/ call'.op = "mouseup" /\ call'.args[1] = startNode[1].connectionId
       \/ call'.op = "handleDetailConnectionEnd" /\ call'.args[1] = detailStartNode[1].connId

\* C14: a release anywhere but over a valid target port is a safe cancel:
\* buckets, connections, the persisted value, historyStack and historyIndex are
\* what they were before the gesture (no step of a connection gesture changes
\* them, the release included).
C14_ReleaseElsewhereIsSafeCancel ==
    [][/\ (call'.op \in {"startConnection", "updateActivePath",
                          "handleDetailConnectionStart", "handleDetailConnectionMove"}
              => Persisted' = Persisted)
       /\ (ReleasedOffTarget => Persisted' = Persisted)]_vars

\* C15: a connection made by the board gesture is stored with the samples
\* taken from the press to the release, in order, as its points.
C15_BoardConnectionKeepsPoints ==
    [][(call'.op = "handleDetailConnectionEnd" /\ Len(connections') = Len(connections) + 1)
          => /\ "points" \in DOMAIN connections'[Len(connections')]
             /\ connections'[Len(connections')].points = currentPathPoints]_vars

\* the '<bucketId>:' a port id starts with: everything up to the first ':'
PrefixOf(id) ==
    LET colons == Positions(id, ":")
    IN  IF colons = {} THEN id ELSE SubSeq(id, 1, FirstIndex(colons))

\* C16: in every connection the store holds, sourceId and targetId start with
\* the same '<bucketId>:'.
C16_SameBucketEndpoints ==
    \A c \in Range(connections) : PrefixOf(c.sourceId) = PrefixOf(c.targetId)

\* C17: every port on the canvas carries '<bucketId>:<instanceId>:<variableId>'
\* with the id of the bucket that holds its item, whether the bucket was
\* rendered or the item dropped on it.
C17_PortsNameTheirBucket ==
    \A el \in ports :
        el.connectionId = EndpointId(el.bucket, el.instanceId, el.variableId)

BoardPoints == {<<QInt(0), QInt(0)>>, <<QInt(40), QInt(-30)>>, <<Q(7, 2), QInt(120)>>}

\* C19: getTransformedPoint undoes the placement translate(pan) scale(s): the
\* screen place of a board point maps back to the board point, whatever the
\* pan and the scale; with scale 0.5 and pan (100, 50), board (0, 0) is at
\* screen (origin + 100, origin + 50).
C19_TransformedPointInvertsPlacement ==
    /\ \A b \in BoardPoints :
           getTransformedPoint(currentTransform, BoardToScreen(currentTransform, b))
               = [x |-> b[1], y |-> b[2]]
    /\ (currentTransform = [x |-> 100, y |-> 50, scale |-> Q(1, 2)]
           => getTransformedPoint(currentTransform,
                                  <<QInt(DetailOrigin[1] + 100), QInt(DetailOrigin[2] + 50)>>)
                  = [x |-> QInt(0), y |-> QInt(0)])

\* the slider was set to 0.5 and the board then panned by (100, 50)
C19_Witness ==
    /\ call.op = "panMove"
    /\ currentTransform = [x |-> 100, y |-> 50, scale |-> Q(1, 2)]

Clamp(v, lo, hi) == IF QLe(v, lo) THEN lo ELSE IF QLe(hi, v) THEN hi ELSE v

\* C20: getBezierPath offsets its control points by clamp(dist/2, 50, 200),
\* which lies within [50, 200]: they are (x1 + off, y1) and (x2 - off, y2),
\* and for coincident endpoints off is 50.
C20_BezierOffsetClamped ==
    pathD # <<>> =>
        LET x1 == mark[1][1] - SvgOrigin[1]
            y1 == mark[1][2] - SvgOrigin[2]
            x2 == call.args[1][1] - SvgOrigin[1]
            y2 == call.args[1][2] - SvgOrigin[2]
            dist == sqrt((x2 - x1) * (x2 - x1) + (y2 - y1) * (y2 - y1))
            off == Clamp(Q(dist, 2), QInt(50), QInt(200))
        IN  /\ pathD[1].M = <<QInt(x1), QInt(y1)>>
            /\ pathD[1].C1 = <<QAdd(QInt(x1), off), QInt(y1)>>
            /\ pathD[1].C2 = <<QSub(QInt(x2), off), QInt(y2)>>
            /\ pathD[1].to = <<QInt(x2), QInt(y2)>>
            /\ QLe(QInt(50), off) /\ QLe(off, QInt(200))
            /\ (<<x1, y1>> = <<x2, y2>> => off = QInt(50))

\* the pointer is on the start port's dot: the endpoints coincide
C20_Witness ==
    /\ pathD # <<>>
    /\ call.op = "updateActivePath"
    /\ call.args[1] = mark[1]
    /\ pathD[1].C1[1] = QInt(mark[1][1] - SvgOrigin[1] + 50)

\* C21: after reLayout in a canvas of width W the bucket at index k is at
\* x = 50 + (k mod cols) * 230 and y = 50 + floor(k / cols) * 320, with
\* cols = max(1, floor((W - 50) / 230)), and no two buckets are on one spot.
C21_GridLayout ==
    call.op = "removeBucket" =>
        LET cols == IF (GridWidth - 50) \div 230 >= 1 THEN (GridWidth - 50) \div 230 ELSE 1
        IN  /\ \A i \in 1..Len(buckets) :
                   /\ buckets[i].x = 50 + ((i - 1) % cols) * 230
                   /\ buckets[i].y = 50 + ((i - 1) \div cols) * 320
            /\ \A i, j \in 1..Len(buckets) :
                   i # j => <<buckets[i].x, buckets[i].y>> # <<buckets[j].x, buckets[j].y>>

\* four buckets laid out in two columns and two rows
C21_Witness ==
    /\ call.op = "removeBucket"
    /\ Len(buckets) = 4
    /\ GridWidth = 510
    /\ buckets[4].x = 280
    /\ buckets[4].y = 370

\* the side of a matched string for the endpoint id `end` of a bucket: the
\* labels of the variable and of its item, 'Unknown' for what is not there
SideOf(bucket, end) ==
    LET owners == {i \in 1..Len(bucket.items) :
                      StartsWith(end, BucketPrefix(bucket.id)
                                          \o bucket.items[i].instanceId \o <<":">>)}
        item == bucket.items[FirstIndex(owners)]
        named == {k \in 1..Len(item.variables) :
                      EndpointId(bucket.id, item.instanceId, item.variables[k].id) = end}
    IN  IF owners = {} THEN Named(<<"Unknown">>, <<"Unknown">>)
        ELSE IF named = {} THEN Named(<<"Unknown">>, item.label)
        ELSE Named(item.variables[FirstIndex(named)].label, item.label)

\* indices (in store order) of the connections with both ends in the bucket
WithinBucket(bucket) ==
    {k \in 1..Len(connections) :
         /\ PrefixOf(connections[k].sourceId) = BucketPrefix(bucket.id)
         /\ PrefixOf(connections[k].targetId) = BucketPrefix(bucket.id)}

\* the k-th least element of a set of indices
RECURSIVE Nth(_, _)
Nth(S, k) == IF k = 1 THEN FirstIndex(S) ELSE Nth(S \ {FirstIndex(S)}, k - 1)

\* <<item index, variable index>> of the variables no such connection ends at
Unconnected(bucket) ==
    {p \in UNION {{<<i, k>> : k \in 1..Len(bucket.items[i].variables)} :
                      i \in 1..Len(bucket.items)} :
         \A c \in WithinBucket(bucket) :
             LET id == EndpointId(bucket.id, bucket.items[p[1]].instanceId,
                                  bucket.items[p[1]].variables[p[2]].id)
             IN  connections[c].sourceId # id /\ connections[c].targetId # id}

ExportedBucket == buckets[FindById(buckets, currentOpenBucketId)]

\* the two lists of the exported file: the JSON arrays, or the CSV columns
\* with the quotes taken off and the padding cells dropped
MatchedOf(file) ==
    IF "content" \in DOMAIN file THEN file.content[1].Matcheddatas
    ELSE LET cells == {k \in 1..Len(file.rows) : file.rows[k][1] = "\""}
         IN  [k \in 1..Cardinality(cells) |->
                 LET row == file.rows[k]
                     close == FirstIndex({j \in 2..Len(row) : row[j] = "\""})
                 IN  SubSeq(row, 2, close - 1)]

UnmatchedOf(file) ==
    IF "content" \in DOMAIN file THEN file.content[2].UnMatchedData
    ELSE LET cells == {k \in 1..Len(file.rows) : file.rows[k][Len(file.rows[k])] = "\""}
         IN  [k \in 1..Cardinality(cells) |->
                 LET row == file.rows[k]
                     comma == FirstIndex({j \in 1..Len(row) : row[j] = ","})
                 IN  SubSeq(row, comma + 2, Len(row) - 1)]

\* C22: the file an export of the open bucket downloads has, in store order,
\* one matched entry per connection with both ends in the bucket, reading
\* '<source variable label> (<source item label>) -> <target variable label>
\* (<target item label>)', and its unmatched entries are exactly the
\* variables of the bucket's items that none of those connections ends at.
C22_ExportLists ==
    (call.op = "handleExportData" /\ call.args[2]) =>
        LET bucket == ExportedBucket
            file == download[1]
            within == WithinBucket(bucket)
            matched == MatchedOf(file)
            unmatched == UnmatchedOf(file)
            open == Unconnected(bucket)
        IN  /\ Len(matched) = Cardinality(within)
            /\ \A k \in 1..Len(matched) :
                   LET c == connections[Nth(within, k)]
                   IN  matched[k] = SideOf(bucket, c.sourceId) \o <<" -> ">>
                                        \o SideOf(bucket, c.targetId)
            /\ Len(unmatched) = Cardinality(open)
            /\ Range(unmatched) =
                   {Named(bucket.items[p[1]].variables[p[2]].label, bucket.items[p[1]].label) :
                        p \in open}

\* bucket-1 exported with connection 7 and the cross-bucket connection 8 in
\* the store: one matched entry, Total of Shopify unmatched
C22_Witness ==
    /\ call.op = "handleExportData" /\ call.args[2]
    /\ currentOpenBucketId = B1
    /\ Len(connections) = 2 /\ connections[1].id = 8 /\ connections[2].id = 7
    /\ Len(buckets[1].items) = 2
    /\ MatchedOf(download[1]) =
           << <<"Order", " (", "Shopify", ")", " -> ", "Order", " (", "Mailer", ")">> >>
    /\ UnmatchedOf(download[1]) = << <<"Total", " (", "Shopify", ")">> >>

\* the handlers that ask confirm() before they delete
Confirming == {"delete-card-btn", "Delete Bucket"}

\* a bucket or an item of the store is gone after the step
Deleted ==
    \/ \E b \in Range(buckets) : FindById(buckets', b.id) = 0
    \/ \E b \in Range(buckets) : \E it \in Range(b.items) :
           \A c \in Range(buckets') : FindByInstanceId(c.items, it.instanceId) = 0

\* C23: a bucket or an item is deleted only by a handler that asked for
\* confirmation and got it, and a declined confirmation leaves buckets,
\* connections, the persisted value and the history as they were.
C23_DeletionsAreConfirmed ==
    [][ /\ Deleted => (call'.op \in Confirming /\ call'.args[2])
        /\ (call'.op \in Confirming /\ ~call'.args[2]) =>
               UNCHANGED <<buckets, connections, workflowState, historyStack, historyIndex>>
      ]_vars

\* C24: a drop whose text is not JSON makes neither drop handler throw, and
\* leaves buckets, connections, the persisted value and the history alone.
C24_MalformedDropIgnored ==
    [][ (/\ call'.op \in {"canvas drop", "bucket drop"}
         /\ call'.args[1] # EmptyText
         /\ ~call'.args[1].wellFormed) =>
            /\ call'.args[2] # "threw"
            /\ UNCHANGED <<buckets, connections, workflowState, historyStack, historyIndex>>
      ]_vars

\* C25: undo() with historyIndex > 0 lowers historyIndex by exactly one and
\* leaves historyStack as it was, whether or not a bucket detail view is open.
C25_UndoStepsBackOnce ==
    [][ (call'.op = "undo" /\ historyIndex > 0) =>
            /\ historyIndex' = historyIndex - 1
            /\ historyStack' = historyStack
      ]_vars

\* C26: on the detail board at most one of pan, card drag and connection
\* drawing is under way.
C26_OneBoardGesture ==
    Cardinality({g \in {"pan", "card", "connection"} :
                    \/ g = "pan" /\ isPanning
                    \/ g = "card" /\ activeDragCardId # NoId
                    \/ g = "connection" /\ detailStartNode # <<>>}) <= 1

\* the listeners' runs on a pointer move
MoveOps == {"board mousemove", "handleBucketDragMove", "updateActivePath"}

\* the item of the open bucket that the card being dragged shows
DraggedItem ==
    LET items == buckets[FindById(buckets, currentOpenBucketId)].items
    IN  items[FindByInstanceId(items, activeDragCardId)]

\* C27: a pointer move during a bucket drag, a card drag, a pan or a
\* connection drawing changes neither historyStack nor historyIndex and does
\* not write the key-value store.
C27_MovesDoNotCommit ==
    [][ call'.op \in MoveOps =>
            UNCHANGED <<historyStack, historyIndex, workflowState>> ]_vars

\* a card of the open board has been moved away from where its item is
C27_Witness ==
    /\ call.op = "board mousemove"
    /\ activeDragCardId # NoId
    /\ ~isPanning
    /\ cardStyle[activeDragCardId][1] # QInt(DraggedItem.x)
    /\ historyIndex >= 0

\* the item the card being dragged shows, after the step
DraggedItemAfter ==
    LET items == buckets'[FindById(buckets', currentOpenBucketId)].items
    IN  items[FindByInstanceId(items, activeDragCardId)]

\* the step appends exactly one snapshot
OneSnapshotAppended ==
    /\ Len(historyStack') = Len(historyStack) + 1
    /\ SubSeq(historyStack', 1, Len(historyStack)) = historyStack
    /\ historyIndex' = historyIndex + 1

\* a release on the board ends the drag of a card that is still there
CardDragReleased ==
    /\ call'.op = "board mouseup"
    /\ activeDragCardId # NoId
    /\ activeDragCardId \in DOMAIN cardStyle

\* C28 as stated: the release that ends a card drag writes the card's left
\* and top into the item's x and y and appends exactly one snapshot; a release
\* with no card drag under way appends none.
C28_CardDragCommitsAtRelease ==
    [][ /\ CardDragReleased =>
               /\ QInt(DraggedItemAfter.x) = cardStyle[activeDragCardId][1]
               /\ QInt(DraggedItemAfter.y) = cardStyle[activeDragCardId][2]
               /\ OneSnapshotAppended
        /\ (call'.op = "board mouseup" /\ activeDragCardId = NoId) =>
               historyStack' = historyStack
      ]_vars

\* C29: the release that ends a bucket drag on the canvas leaves the bucket's
\* x and y in the persisted value and appends exactly one snapshot.
C29_BucketDragCommitsAtRelease ==
    [][ call'.op = "handleBucketDragEnd" =>
            /\ workflowState' # <<>>
            /\ load(workflowState').buckets = buckets'
            /\ OneSnapshotAppended
      ]_vars

\* the paths of the layer that carry the 'selected' mark
SelectedPaths == {i \in 1..Len(layer) : layer[i].selected}

\* C30: at most one path of the layer is selected; Delete or Backspace with a
\* selected path removes from connections exactly the connection with that
\* path's id, and a key pressed with no path selected changes neither
\* buckets, connections, the persisted value nor the history.
C30_SelectionAndDelete ==
    [][ /\ Cardinality(SelectedPaths) <= 1
        /\ Cardinality(SelectedPaths') <= 1
        /\ (/\ call'.op = "keydown"
            /\ call'.args[1] \in {"Delete", "Backspace"}
            /\ SelectedPaths # {}) =>
               LET path == layer[FirstIndex(SelectedPaths)]
               IN  connections' = Filter(connections, {c \in Range(connections) :
                                                          <<c.id>> # path.id})
        /\ (call'.op = "keydown" /\ SelectedPaths = {}) =>
               UNCHANGED <<buckets, connections, workflowState, historyStack, historyIndex>>
      ]_vars

\* Delete was pressed with the path of connection 7 selected: 7 is gone, 6 stays
C30_Witness ==
    /\ call.op = "keydown"
    /\ call.args[1] = "Delete"
    /\ Len(connections) = 1
    /\ connections[1].id = 6
    /\ Len(layer) = 1
    /\ layer[1].id = <<6>>
    /\ Len(load(workflowState).connections) = 1


\* C31: disconnectAllCardConnections(instanceId) on the open bucket B removes
\* exactly the connections with an endpoint of the form 'B:instanceId:<variable>'
\* and leaves every other connection in the store, also those of items whose
\* instanceId merely begins with instanceId
TouchesItem(c, bucketId, instanceId) ==
    \/ StartsWith(c.sourceId, bucketId \o <<":">> \o instanceId \o <<":">>)
    \/ StartsWith(c.targetId, bucketId \o <<":">> \o instanceId \o <<":">>)

C31_DisconnectAllRemovesExactlyTheItems ==
    [][call'.op = "disconnectAllCardConnections" =>
          connections' = Filter(connections,
              {c \in Range(connections) :
                  ~TouchesItem(c, currentOpenBucketId, call'.args[1])})]_vars

\* C38: after an item is deleted from a bucket through any path of the page
\* (card delete button, context-menu Delete on a card, bucket-list item
\* remove, custom-template delete cascade), state.connections holds no
\* connection whose sourceId or targetId names that item
ItemDeletions == {"delete-card-btn", "deleteCard", "delete-item-btn", "deleteSidebarItem"}

\* the (bucket id, instanceId) pairs of the items the store holds
ItemsOf(bs) ==
    UNION {{<<b.id, it.instanceId>> : it \in Range(b.items)} : b \in Range(bs)}

C38_DeletedItemsLeaveNoConnections ==
    [][call'.op \in ItemDeletions =>
          \A gone \in ItemsOf(buckets) \ ItemsOf(buckets') :
              \A c \in Range(connections') : ~TouchesItem(c, gone[1], gone[2])]_vars

\* C32: once pushed, a snapshot of historyStack is never altered by later
\* mutations of the live graph, after a commit or after an undo()/redo()
\* restore: every snapshot that stays on the stack serialises to the same value
\* before and after each call, and the stack of values is what the objects hold
StackValues(h) ==
    [i \in 1..Len(h.historyStack) |-> stringify(h.cells, h.historyStack[i])]

C32_SnapshotsAreFrozen ==
    [][ /\ \A ref \in Range(heap.historyStack) \cap Range(heap'.historyStack) :
               stringify(heap'.cells, ref) = stringify(heap.cells, ref)
        /\ historyStack' = StackValues(heap')
        /\ buckets' = stringify(heap'.cells, heap'.buckets)
        /\ connections' = stringify(heap'.cells, heap'.connections) ]_vars

\* a bucket object was changed in place after an undo, with the snapshot the
\* undo restored still on the stack and different from the live graph
C32_Witness ==
    /\ call.op = "updateBucket"
    /\ log # <<>>
    /\ nUndos = 1
    /\ Len(heap.historyStack) = 2
    /\ stringify(heap.cells, heap.historyStack[1]) # Snapshot(M)
    /\ stringify(heap.cells, heap.historyStack[1]).buckets # <<>>
    /\ stringify(heap.cells, heap.historyStack[2]) = Snapshot(M)

\* C33: for the same container width and the same bucket index, createBucket
\* and reLayout compute the same grid position: a bucket created at an index
\* (it carries the label createBucket gives at that index) is not moved by a
\* later reLayout that leaves its index unchanged
C33_CreatedBucketStaysPut ==
    [][call'.op = "removeBucket" =>
          \A i \in 1..Len(buckets') :
              (buckets'[i].id = buckets[i].id /\ buckets[i].label = BucketLabels[i]) =>
                  <<buckets'[i].x, buckets'[i].y>> = <<buckets[i].x, buckets[i].y>>]_vars

\* C34: whatever the interleaving of the delayed initial commit with the
\* mutators the user triggers, the bottom snapshot of historyStack is the
\* graph as loaded from storage at startup (kept in mark)
C34_BottomSnapshotIsLoadedGraph ==
    historyStack # <<>> => historyStack[1] = mark[1]

\* C35: after every pointer release (mouseup) no gesture remains active:
\* isPanning is false and activeDragCardId, the board's path and start node,
\* the canvas's path and start node, and activeDragBucketId are all cleared,
\* whatever presses and moves came before
C35_ReleaseEndsEveryGesture ==
    [][call'.op = "mouseup" => Active(Gestures') = {}]_vars

\* a release that ended a pan and a card drag together
C35_Witness ==
    /\ call.op = "mouseup"
    /\ {"isPanning", "activeDragCardId"} \subseteq call.args[2]
    /\ Active(Gestures) = {}

\* C36: the canvas's connection layer holds at most one preview path at any
\* time, and none once the drawing gesture has ended, whether it completed a
\* connection or was cancelled
PreviewPaths == {i \in 1..Len(layer) : layer[i].preview}

C36_PreviewPathIsTransient ==
    /\ Cardinality(PreviewPaths) <= 1
    /\ pathD = <<>> => PreviewPaths = {}

\* the pointer of the move is on the point of the card that the press grabbed:
\* the offset kept at the press is the pointer's offset from the card now
OnGrabbedPoint(client) ==
    /\ ~isPanning
    /\ currentOpenBucketId # NoId
    /\ activeDragCardId \in DOMAIN cardStyle
    /\ currentCardDragOffset = CardGrabOffset(currentTransform, cardStyle[activeDragCardId], client)

\* C37: a card drag preserves the grab offset at every zoom scale: a pointer
\* move to the position of the press (the pointer still on the grabbed point
\* of the card) leaves the card's left and top unchanged
C37_CardDragKeepsGrabOffset ==
    [][(call'.op = "board mousemove" /\ OnGrabbedPoint(call'.args[1]))
          => cardStyle'[activeDragCardId] = cardStyle[activeDragCardId]]_vars

\* the buckets that hold two items made from the same template
TwiceInOneBucket ==
    {i \in 1..Len(buckets) :
        \E j, k \in 1..Len(buckets[i].items) :
            j # k /\ buckets[i].items[j].id = buckets[i].items[k].id}

\* C39: a drop of a sidebar item on a bucket that already holds an item with
\* the same template id is rejected and changes nothing, so that no sequence
\* of drops leaves two items with the same template id in one bucket
C39_DuplicateDropRejected ==
    [][(call'.op = "bucket drop" /\ TwiceInOneBucket = {})
          => /\ TwiceInOneBucket' = {}
             /\ (\A i \in 1..Len(buckets) :
                    \E item \in Range(buckets[i].items) : item.id = SidebarData.id)
                 => UNCHANGED <<buckets, connections, workflowState, historyStack,
                                historyIndex>>]_vars

====
